---------------------------- MODULE Spec2Model ----------------------------
(* Model of the retrieval-augmented answer pipeline of the Moroccan legal   *)
(* assistant: RAGService (rag_service.py), CrewMultiAgentService            *)
(* (crew_agent_service.py), LLMService (llm_service.py) and the two search  *)
(* operations of VectorStore (vector_store.py).                             *)
(*                                                                          *)
(* Conventions.                                                             *)
(*  - A Python str that the code inspects character by character (the       *)
(*    question) is a sequence of one-character strings; non-ASCII letters   *)
(*    are written by name ("e_acute", "sheen", ...).                        *)
(*  - A text that the code only copies or concatenates (an answer) is a     *)
(*    sequence of fragments; f"...{x}" is the concatenation \o.             *)
(*  - A float in [0,1] (score, confidence) is an integer number of          *)
(*    hundredths: 75 is 0.75.                                               *)
(*  - datetime.now() timestamps are left out: no operation reads them back. *)
EXTENDS Integers, Sequences, FiniteSets, TLC

VARIABLES
    settings,               \* config.settings and the presence of the crewai library
    is_initialized,         \* RAGService._is_initialized
    conversation_history,   \* RAGService.conversation_history
    history_file,           \* conversation_history.json on durable storage
    llm,                    \* LLMService: ollama_client / gemini_model present
    collection,             \* partitions (source files) held by the vector index
    mas,                    \* RAGService.multi_agent_service
    run,                    \* the coordinator run in flight inside ask_question
    response,               \* what the last operation returned to its caller
    trace,                  \* observation: path taken and backends called by the last request
    next_uuid               \* source of fresh uuid4 values

vars == <<settings, is_initialized, conversation_history, history_file, llm,
          collection, mas, run, response, trace, next_uuid>>

----------------------------------------------------------------------------
(* Bounds of the model.                                                     *)

\* entries ever recorded in one behaviour of Spec and of SpecCrew
MaxRequests == 1

\* entries ever recorded in one behaviour of SpecHist: more than MAX_HISTORY
MaxAppends == 103

----------------------------------------------------------------------------
(* str.strip() and str.lower() on character sequences.                      *)

Whitespace == {" ", "\t", "\n"}

UpperCase == <<"A","B","C","D","E","F","G","H","I","J","K","L","M",
               "N","O","P","Q","R","S","T","U","V","W","X","Y","Z">>

LowerCase == <<"a","b","c","d","e","f","g","h","i","j","k","l","m",
               "n","o","p","q","r","s","t","u","v","w","x","y","z">>

LowerChar(c) ==
    IF \E i \in 1..Len(UpperCase) : UpperCase[i] = c
    THEN LowerCase[CHOOSE i \in 1..Len(UpperCase) : UpperCase[i] = c]
    ELSE c

Lower(s) == [i \in 1..Len(s) |-> LowerChar(s[i])]

Strip(s) ==
    LET keep == {i \in 1..Len(s) : s[i] \notin Whitespace}
    IN  IF keep = {} THEN <<>>
        ELSE LET lo == CHOOSE i \in keep : \A j \in keep : i <= j
                 hi == CHOOSE i \in keep : \A j \in keep : i >= j
             IN  SubSeq(s, lo, hi)

Normalize(s) == Lower(Strip(s))

\* Python's "word in text" on strings: word occurs as a contiguous substring.
Contains(text, word) ==
    \E i \in 0..(Len(text) - Len(word)) :
        \A j \in 1..Len(word) : text[i + j] = word[j]

Min(a, b) == IF a <= b THEN a ELSE b

Max(a, b) == IF a >= b THEN a ELSE b

\* Python's xs[:n] for n >= 0
Prefix(xs, n) == SubSeq(xs, 1, Min(n, Len(xs)))

\* Python's xs[-n:] for n >= 1
Suffix(xs, n) == SubSeq(xs, Max(1, Len(xs) - n + 1), Len(xs))

----------------------------------------------------------------------------
(* Greeting short-circuit: RAGService._handle_greetings.                    *)

greetings ==
    <<
       <<"b","o","n","j","o","u","r">>,
       <<"b","o","n","s","o","i","r">>,
       <<"s","a","l","u","t">>,
       <<"h","e","l","l","o">>,
       <<"h","i">>,
       <<"h","e","y">>,
       <<"c","o","u","c","o","u">>,
       <<"b","o","n","n","e"," ","j","o","u","r","n","e_acute","e">>,
       <<"b","o","n","n","e"," ","s","o","i","r","e_acute","e">>,
       <<"b","o","n"," ","m","a","t","i","n">>,
       <<"g","o","o","d"," ","m","o","r","n","i","n","g">>,
       <<"g","o","o","d"," ","e","v","e","n","i","n","g">>,
       <<"g","o","o","d"," ","a","f","t","e","r","n","o","o","n">>,
       <<"s","a","l","a","m">>,
       <<"s","a","l","a","m"," ","a","l","a","y","k","o","u","m">>,
       <<"m","e","r","c","i">>,
       <<"t","h","a","n","k"," ","y","o","u">>,
       <<"t","h","a","n","k","s">>,
       <<"sheen","kaf","ra","alef">>,
       <<"a","u"," ","r","e","v","o","i","r">>,
       <<"b","y","e">>,
       <<"a_grave"," ","b","i","e","n","t","o_circ","t">>,
       <<"g","o","o","d","b","y","e">>
    >>

ThanksWords == { <<"m","e","r","c","i">>, <<"t","h","a","n","k">>,
                 <<"sheen","kaf","ra","alef">> }

ClosingWords == { <<"a","u"," ","r","e","v","o","i","r">>, <<"b","y","e">>,
                  <<"g","o","o","d","b","y","e">>,
                  <<"a_grave"," ","b","i","e","n","t","o_circ","t">> }

WelcomeText == <<"Bonjour ! Je suis votre assistant juridique marocain.">>

ThanksText == <<"De rien ! N'hesitez pas si vous avez d'autres questions juridiques.">>

ClosingText == <<"Au revoir ! N'hesitez pas a revenir si vous avez des questions juridiques.">>

NoAnswer == [found |-> FALSE]

Answer(text, sources, confidence, time) ==
    [found |-> TRUE, raised |-> FALSE, answer |-> text, sources |-> sources,
     confidence_score |-> confidence, processing_time |-> time]

\* a detection by containment: some greeting occurs in the question
IsGreeting_contained(question) ==
    LET normalized == Normalize(question)
    IN  \E i \in 1..Len(greetings) : Contains(normalized, greetings[i])

\* "if normalized in greetings": membership, not containment
IsGreeting(question) ==
    LET normalized == Normalize(question)
    IN  \E i \in 1..Len(greetings) : greetings[i] = normalized

GreetingText(normalized) ==
    IF \E w \in ThanksWords : Contains(normalized, w) THEN ThanksText
    ELSE IF \E w \in ClosingWords : Contains(normalized, w) THEN ClosingText
    ELSE WelcomeText

handle_greetings(question) ==
    IF IsGreeting(question)
    THEN Answer(GreetingText(Normalize(question)), <<>>, 100, "0.0")
    ELSE NoAnswer

----------------------------------------------------------------------------
(* Similarity search: VectorStore.search_similar_documents and              *)
(* VectorStore.search_documents_for_dataset.  The index itself is opaque:   *)
(* a query returns an error or a list of candidates in ascending distance.  *)

\* a str known by its content and its length in characters
Str(text, len) == [text |-> text, len |-> len, tail |-> 0]

StrLen(s) == s.len + s.tail

Partitions == {"code_commerce.csv", "loi_societes.csv"}

\* sorted(...) of a set of file names
SortedFiles(files) ==
    IF files = {} THEN <<>>
    ELSE IF files = {"code_commerce.csv"} THEN <<"code_commerce.csv">>
    ELSE IF files = {"loi_societes.csv"} THEN <<"loi_societes.csv">>
    ELSE <<"code_commerce.csv", "loi_societes.csv">>

NoDistance == [kind |-> "none", d |-> 0]

Dist(d) == [kind |-> "num", d |-> d]

\* a candidate of the index: the metadata stored with the document and the raw distance
Hit(file, article, len, distance) ==
    [metadata |-> [doc |-> file, titre |-> "", chapitre |-> "", article |-> article,
                   contenu |-> Str(article, len), pages |-> "", source_file |-> file],
     distance |-> distance]

NearHit(file) == Hit(file, "5", 120, Dist(10))

LongHit(file) == Hit(file, "17", 250, Dist(300))

FarHit(file) == Hit(file, "9", 40, Dist(97))

QueryError == [kind |-> "error", hits |-> <<>>]

QueryOk(hits) == [kind |-> "ok", hits |-> hits]

\* what the queries collection.query(..., where={"source_file": file}) of one
\* run can return, one answer per partition: nothing that qualifies, hits in
\* the first partition only, hits in both
PartitionAnswers(coll) ==
    LET first  == "code_commerce.csv"
        second == "loi_societes.csv"
        Both(a, b) == [f \in Partitions |-> IF f \notin coll THEN QueryOk(<<>>)
                                            ELSE IF f = first THEN a ELSE b]
    IN  { Both(QueryOk(<<FarHit(first)>>), QueryError),
          Both(QueryOk(<<NearHit(first), LongHit(first)>>), QueryOk(<<>>)),
          Both(QueryOk(<<NearHit(first), LongHit(first)>>), QueryOk(<<NearHit(second)>>)) }

\* what collection.query(...) over the whole collection can return
GlobalResults(coll) ==
    {QueryError, QueryOk(<<>>)}
    \cup {QueryOk(<<NearHit(f), FarHit(f), LongHit(f)>>) :
             f \in {g \in coll : SortedFiles(coll)[1] = g}}

similarity_score(distance) ==
    IF distance.kind = "none" THEN 100
    ELSE IF distance.kind # "num" THEN 0
    ELSE IF 0 <= distance.d /\ distance.d <= 100 THEN Max(0, 100 - distance.d)
    ELSE IF 100 + distance.d = 0 THEN 0
    ELSE IF 100 + distance.d > 0 THEN 10000 \div (100 + distance.d)
    ELSE 0 - (10000 \div (0 - (100 + distance.d)))

Source(metadata, score) ==
    [doc |-> metadata.doc, titre |-> metadata.titre, chapitre |-> metadata.chapitre,
     article |-> metadata.article, contenu |-> metadata.contenu,
     pages |-> metadata.pages, source_file |-> metadata.source_file,
     relevance_score |-> score]

\* a search that keeps every candidate, whatever its score
ScoredSources_unfiltered(hits, min_score) ==
    [i \in 1..Len(hits) |-> Source(hits[i].metadata, similarity_score(hits[i].distance))]

RECURSIVE ScoredSources(_, _)
ScoredSources(hits, min_score) ==
    IF hits = <<>> THEN <<>>
    ELSE LET score == similarity_score(Head(hits).distance)
             rest  == ScoredSources(Tail(hits), min_score)
         IN  IF score >= min_score
             THEN <<Source(Head(hits).metadata, score)>> \o rest
             ELSE rest

search_similar_documents(results, n_results, min_score) ==
    IF results.kind = "error" THEN <<>>
    ELSE ScoredSources(Prefix(results.hits, n_results), min_score)

search_documents_for_dataset(results, n_results, min_score) ==
    IF results.kind = "error" THEN <<>>
    ELSE ScoredSources(Prefix(results.hits, n_results), min_score)

----------------------------------------------------------------------------
(* Conversation cache and history: _check_history_cache, _save_to_history,  *)
(* _persist_history_to_file, _load_history_from_file, clear_history.        *)

HISTORY_FILE_ABSENT == [exists |-> FALSE, content |-> <<>>]

\* contenu[:200] + "..." if len(contenu) > 200 else contenu
TruncateContenu(contenu) ==
    IF StrLen(contenu) > 200
    THEN [text |-> contenu.text, len |-> 200, tail |-> 3]
    ELSE contenu

\* the dict stored for a source: every field of Source except pages
SourceDict(source) ==
    [doc |-> source.doc, titre |-> source.titre, chapitre |-> source.chapitre,
     article |-> source.article, contenu |-> TruncateContenu(source.contenu),
     source_file |-> source.source_file, relevance_score |-> source.relevance_score]

\* a Source rebuilt from a stored dict without its score
SourceFromDict_unscored(s) ==
    [doc |-> s.doc, titre |-> s.titre, chapitre |-> s.chapitre,
     article |-> s.article, contenu |-> s.contenu, pages |-> "None",
     source_file |-> s.source_file, relevance_score |-> 0]

\* Source(doc=s["doc"], ...): pages is not stored and takes its default None
SourceFromDict(s) ==
    [doc |-> s.doc, titre |-> s.titre, chapitre |-> s.chapitre,
     article |-> s.article, contenu |-> s.contenu, pages |-> "None",
     source_file |-> s.source_file, relevance_score |-> s.relevance_score]

HistoryEntry(id, question, resp) ==
    [id |-> id, question |-> question, answer |-> resp.answer,
     sources |-> [i \in 1..Len(resp.sources) |-> SourceDict(resp.sources[i])],
     confidence_score |-> resp.confidence_score]

\* json.dump writes each entry as an object with its keys in insertion order
JsonDump(history) ==
    [i \in 1..Len(history) |->
        <<history[i].id, history[i].question, history[i].answer,
          history[i].sources, history[i].confidence_score>>]

JsonLoad(content) ==
    [i \in 1..Len(content) |->
        [id |-> content[i][1], question |-> content[i][2], answer |-> content[i][3],
         sources |-> content[i][4], confidence_score |-> content[i][5]]]

\* a lookup that compares the questions as they were typed
check_history_cache_verbatim(history, question) ==
    LET matches == {i \in 1..Len(history) : history[i].question = question}
    IN  IF matches = {} THEN NoAnswer
        ELSE LET entry == history[CHOOSE i \in matches : \A j \in matches : i >= j]
             IN  Answer(entry.answer,
                        [k \in 1..Len(entry.sources) |-> SourceFromDict(entry.sources[k])],
                        entry.confidence_score, "0.0")

\* a lookup that scans the history from its oldest entry
check_history_cache_oldest(history, question) ==
    LET matches == {i \in 1..Len(history) :
                        Normalize(history[i].question) = Normalize(question)}
    IN  IF matches = {} THEN NoAnswer
        ELSE LET entry == history[CHOOSE i \in matches : \A j \in matches : i <= j]
             IN  Answer(entry.answer,
                        [k \in 1..Len(entry.sources) |-> SourceFromDict(entry.sources[k])],
                        entry.confidence_score, "0.0")

\* a lookup that answers with the confidence of a canned reply instead of the
\* confidence recorded in the entry
check_history_cache_rescored(history, question) ==
    LET matches == {i \in 1..Len(history) :
                        Normalize(history[i].question) = Normalize(question)}
    IN  IF matches = {} THEN NoAnswer
        ELSE LET entry == history[CHOOSE i \in matches : \A j \in matches : i >= j]
             IN  Answer(entry.answer,
                        [k \in 1..Len(entry.sources) |-> SourceFromDict(entry.sources[k])],
                        100, "0.0")

\* for entry in reversed(history): the matching entry with the greatest index
check_history_cache(history, question) ==
    LET normalized == Normalize(question)
        matches    == {i \in 1..Len(history) : Normalize(history[i].question) = normalized}
    IN  IF matches = {} THEN NoAnswer
        ELSE LET last  == CHOOSE i \in matches : \A j \in matches : i >= j
                 entry == history[last]
             IN  Answer(entry.answer,
                        [k \in 1..Len(entry.sources) |-> SourceFromDict(entry.sources[k])],
                        entry.confidence_score, "0.0")

MAX_HISTORY == 100

\* a save that puts the new entry in front of the others
save_to_history_front(history, id, question, resp) ==
    LET inserted == <<HistoryEntry(id, question, resp)>> \o history
    IN  IF Len(inserted) > MAX_HISTORY THEN Suffix(inserted, MAX_HISTORY) ELSE inserted

\* a save that keeps the oldest entries when the history is full
save_to_history_oldest(history, id, question, resp) ==
    LET appended == Append(history, HistoryEntry(id, question, resp))
    IN  IF Len(appended) > MAX_HISTORY THEN Prefix(appended, MAX_HISTORY) ELSE appended

\* a save that appends the entry twice
save_to_history_twice(history, id, question, resp) ==
    Append(Append(history, HistoryEntry(id, question, resp)),
           HistoryEntry(id, question, resp))

\* history.append(entry); if len(history) > 100: history = history[-100:]
save_to_history(history, id, question, resp) ==
    LET appended == Append(history, HistoryEntry(id, question, resp))
    IN  IF Len(appended) > MAX_HISTORY THEN Suffix(appended, MAX_HISTORY) ELSE appended

\* an append that leaves the file as it was
persist_history_to_file_stale(history, file, write_ok) == file

\* open(path, 'w') + json.dump; a failing write is logged and ignored
persist_history_to_file(history, file, write_ok) ==
    IF write_ok THEN [exists |-> TRUE, content |-> JsonDump(history)] ELSE file

\* a construction that takes the content of the file even when reading fails
load_history_from_file_unchecked(file, load_ok) ==
    IF ~file.exists THEN <<>> ELSE JsonLoad(file.content)

\* a construction that ignores the file
load_history_from_file_ignored(file, load_ok) == <<>>

\* json.load when the file exists; a failing load gives the empty history
load_history_from_file(file, load_ok) ==
    IF ~file.exists THEN <<>>
    ELSE IF load_ok THEN JsonLoad(file.content)
    ELSE <<>>

----------------------------------------------------------------------------
(* Answer generation backend: LLMService.                                   *)

\* what is known of a generated text: its length, whether it holds one of the
\* keywords "article", "loi", "decret", "code", and the document names it cites
EmptyText == <<>>

CitedText == <<"Selon l'article 5 de code_commerce.csv, le capital minimum est de 300000 MAD.">>

ShortText == <<"Oui.">>

\* the keywords of the legal register, "décret" written without its accent
Keywords ==
    {<<"a","r","t","i","c","l","e">>, <<"l","o","i">>, <<"d","e","c","r","e","t">>,
     <<"c","o","d","e">>}

\* the texts above are known by their properties; any other text is a sequence
\* of characters, and its properties are computed
TextLen(text) ==
    IF text = CitedText THEN 78 ELSE IF text = ShortText THEN 4 ELSE Len(text)

\* any(keyword in answer.lower() for keyword in [...])
HasLegalKeyword(text) ==
    IF text \in {CitedText, ShortText} THEN text = CitedText
    ELSE LET lowered == Lower(text)
         IN  \E keyword \in Keywords : Contains(lowered, keyword)

\* (source.doc or "").lower() in answer.lower()
MentionsDoc(text, doc) ==
    IF text \in {CitedText, ShortText} THEN text = CitedText /\ doc = "code_commerce.csv"
    ELSE Contains(Lower(text), Lower(doc))

calculate_confidence_score(answer, sources) ==
    IF answer = EmptyText \/ sources = <<>> THEN 0
    ELSE Min(100,
             50
             + (IF HasLegalKeyword(answer) THEN 20 ELSE 0)
             + (IF \E i \in 1..Len(sources) : MentionsDoc(answer, sources[i].doc)
                THEN 20 ELSE 0)
             + (IF 50 <= TextLen(answer) /\ TextLen(answer) <= 2000 THEN 10 ELSE 0))

Raised(message) == [raised |-> TRUE, message |-> message]

\* outcomes of ollama_client.generate: the call raises, or returns a text
GenerateOutcomes ==
    {[ok |-> FALSE, text |-> <<"connection refused">>]}
    \cup {[ok |-> TRUE, text |-> t] : t \in {CitedText}}

generate_answer_with_ollama(ollama_client, sources, outcome) ==
    IF ~ollama_client THEN Raised(<<"Ollama n'est pas initialise">>)
    ELSE IF ~outcome.ok THEN Raised(outcome.text)
    ELSE [raised |-> FALSE, answer |-> outcome.text,
          confidence_score |-> calculate_confidence_score(outcome.text, sources)]

ImprovedText == <<"Reponse amelioree: selon l'article 5, le capital minimum est de 300000 MAD.">>

ProseText == <<"La reponse est correcte.">>

\* outcomes of gemini_model.generate_content: the call raises, the response is a
\* JSON object (with or without the expected keys), or it is not JSON
ValidateOutcomes ==
    { [kind |-> "raises",   has_answer |-> FALSE, has_score |-> FALSE, text |-> <<>>, score |-> 0],
      [kind |-> "json",     has_answer |-> TRUE,  has_score |-> TRUE,  text |-> ImprovedText, score |-> 90],
      [kind |-> "not_json", has_answer |-> FALSE, has_score |-> FALSE, text |-> ProseText, score |-> 0] }

validate_answer_with_gemini(gemini_model, answer, outcome) ==
    IF ~gemini_model THEN [validated_answer |-> answer, validation_score |-> 50]
    ELSE IF outcome.kind = "raises" THEN [validated_answer |-> answer, validation_score |-> 50]
    ELSE IF outcome.kind = "json"
         THEN [validated_answer |-> IF outcome.has_answer THEN outcome.text ELSE answer,
               validation_score |-> IF outcome.has_score THEN outcome.score ELSE 50]
    ELSE [validated_answer |-> outcome.text, validation_score |-> 70]

----------------------------------------------------------------------------
(* Multi-agent coordinator: CrewMultiAgentService.                          *)

CREW_AGENT_TOP_K == 3

CREW_MIN_SCORE == 5

NoService ==
    [exists |-> FALSE, is_available |-> FALSE, dataset_files |-> <<>>,
     dataset_agents |-> <<>>, supervisor_agent |-> FALSE, latest_sources |-> <<>>]

\* _build_agents: raises when a model handle cannot be created, else one agent
\* per known dataset and the supervisor
build_agents(service, llm_ok) ==
    IF ~llm_ok THEN [raised |-> TRUE, service |-> service]
    ELSE [raised |-> FALSE,
          service |-> [service EXCEPT !.dataset_agents = service.dataset_files,
                                      !.supervisor_agent = TRUE]]

\* CrewMultiAgentService.__init__
NewService(config, dataset_files, llm_ok) ==
    LET fresh == [exists |-> TRUE,
                  is_available |-> config.ENABLE_CREW_AGENTS /\ config.crewai_installed,
                  dataset_files |-> SortedFiles(dataset_files),
                  dataset_agents |-> <<>>, supervisor_agent |-> FALSE,
                  latest_sources |-> <<>>]
        built == build_agents(fresh, llm_ok)
    IN  IF ~fresh.is_available THEN fresh
        ELSE IF built.raised THEN [fresh EXCEPT !.is_available = FALSE]
        ELSE built.service

\* an update that makes the coordinator available again and rebuilds its agents
update_datasets_revived(service, dataset_files, llm_ok) ==
    build_agents([service EXCEPT !.dataset_files = SortedFiles(dataset_files),
                                 !.is_available = TRUE], llm_ok)

\* CrewMultiAgentService.update_datasets: the exception of _build_agents propagates
update_datasets(service, dataset_files, llm_ok) ==
    LET updated == [service EXCEPT !.dataset_files = SortedFiles(dataset_files)]
    IN  IF ~service.is_available THEN [raised |-> FALSE, service |-> updated]
        ELSE build_agents(updated, llm_ok)

\* RAGService._initialize_multi_agent
initialize_multi_agent(service, config, dataset_files, llm_ok) ==
    IF ~config.ENABLE_CREW_AGENTS \/ dataset_files = {}
    THEN [raised |-> FALSE, service |-> service]
    ELSE IF ~service.exists
    THEN [raised |-> FALSE, service |-> NewService(config, dataset_files, llm_ok)]
    ELSE update_datasets(service, dataset_files, llm_ok)

\* _prepare_dataset_contexts: the sources found per dataset, in dataset order;
\* a dataset without source gets no context
RECURSIVE GatherSources(_, _, _)
GatherSources(files, results, per_dataset) ==
    IF files = <<>> THEN <<>>
    ELSE LET found == search_documents_for_dataset(results[Head(files)], per_dataset,
                                                   CREW_MIN_SCORE)
         IN  <<[dataset |-> Head(files), sources |-> found]>>
             \o GatherSources(Tail(files), results, per_dataset)

RECURSIVE Flatten(_)
Flatten(gathered) ==
    IF gathered = <<>> THEN <<>>
    ELSE Head(gathered).sources \o Flatten(Tail(gathered))

\* a gathering that adds the sources of the run to those the service holds
prepare_dataset_contexts_accumulated(service, results, context_limit) ==
    LET gathered == GatherSources(service.dataset_files, results,
                                  Max(context_limit, CREW_AGENT_TOP_K))
    IN  [contexts |-> {gathered[i].dataset : i \in {j \in 1..Len(gathered) :
                                                       gathered[j].sources # <<>>}},
         aggregated_sources |-> service.latest_sources \o Flatten(gathered)]

prepare_dataset_contexts(service, results, context_limit) ==
    LET gathered == GatherSources(service.dataset_files, results,
                                  Max(context_limit, CREW_AGENT_TOP_K))
    IN  [contexts |-> {gathered[i].dataset : i \in {j \in 1..Len(gathered) :
                                                       gathered[j].sources # <<>>}},
         aggregated_sources |-> Flatten(gathered)]

\* a run that keeps every agent, whether or not its dataset has a context
ActiveAgents_all(agents, contexts) == agents

\* active_agents: the agents whose dataset has a context, in agent order
RECURSIVE ActiveAgents(_, _)
ActiveAgents(agents, contexts) ==
    IF agents = <<>> THEN <<>>
    ELSE (IF Head(agents) \in contexts THEN <<Head(agents)>> ELSE <<>>)
         \o ActiveAgents(Tail(agents), contexts)


\* The JSON objects a supervisor can emit, by name: the value of each key, or
\* its absence.  confidence is a number, or a text that float() rejects.
VerdictAnswer == <<"Le capital minimum d'une societe anonyme est de 300000 MAD (article 5).">>

Verdict(has_answer, answer, confidence) ==
    [type |-> "dict", has_answer |-> has_answer, answer |-> answer,
     confidence |-> confidence, sources |-> <<>>]

AbsentConfidence == [kind |-> "absent", value |-> 0]

NumConfidence(value) == [kind |-> "num", value |-> value]

TextConfidence == [kind |-> "text", value |-> 0]

JsonObjects ==
    [full      |-> Verdict(TRUE, VerdictAnswer, NumConfidence(90)),
     noconf    |-> Verdict(TRUE, VerdictAnswer, AbsentConfidence),
     noanswer  |-> Verdict(FALSE, <<>>, NumConfidence(80)),
     blank     |-> Verdict(TRUE, <<>>, NumConfidence(80)),
     badconf   |-> Verdict(TRUE, VerdictAnswer, TextConfidence),
     overconf  |-> Verdict(TRUE, VerdictAnswer, NumConfidence(150))]

NotDict(type, truthy) == [type |-> type, truthy |-> truthy]

JSONDecodeError == [type |-> "JSONDecodeError", truthy |-> FALSE]

\* json.loads on a text given as a sequence of tokens: "{", the name of an
\* object body, "}", "[", "]", a number, or words of prose
json_loads(text) ==
    IF Len(text) = 3 /\ text[1] = "{" /\ text[3] = "}" /\ text[2] \in DOMAIN JsonObjects
    THEN JsonObjects[text[2]]
    ELSE IF text = <<"{", "}">> THEN NotDict("empty_dict", FALSE)
    ELSE IF text = <<"42">> THEN NotDict("number", TRUE)
    ELSE IF text = <<"[", "1", "]">> THEN NotDict("list", TRUE)
    ELSE IF text = <<"[", "]">> THEN NotDict("list", FALSE)
    ELSE JSONDecodeError

\* re.search(r"\{.*\}", text, re.DOTALL): from the first "{" to the last "}"
BraceMatch(text) ==
    LET opens  == {i \in 1..Len(text) : text[i] = "{"}
        closes == {i \in 1..Len(text) : text[i] = "}"}
        pairs  == {<<i, j>> \in opens \X closes : i < j}
    IN  IF pairs = {} THEN [found |-> FALSE, text |-> <<>>]
        ELSE LET first == CHOOSE i \in opens : \A k \in opens : i <= k
                 last  == CHOOSE j \in closes : \A k \in closes : j >= k
             IN  [found |-> TRUE, text |-> SubSeq(text, first, last)]

\* what crew.kickoff() can return: a dict, an object with a raw text, or a text
DictOutput(name) == [kind |-> "dict", value |-> JsonObjects[name], raw |-> <<>>]

CrewOutput(raw) == [kind |-> "crew_output", value |-> JSONDecodeError, raw |-> raw]

TextOutput(raw) == [kind |-> "text", value |-> JSONDecodeError, raw |-> raw]

SupervisorOutputs ==
    { DictOutput("full"),
      CrewOutput(<<"{", "full", "}">>),
      CrewOutput(<<"Voici", "la", "synthese", "{", "noconf", "}", "merci">>),
      CrewOutput(<<"{", "noanswer", "}">>),
      CrewOutput(<<"{", "badconf", "}">>),
      CrewOutput(<<"je", "ne", "sais", "pas">>),
      CrewOutput(<<"{", "pas", "du", "json", "}">>),
      TextOutput(<<"{", "}">>),
      TextOutput(<<"42">>) }

\* _parse_supervisor_output; the result None is JSONDecodeError here
parse_supervisor_output(output) ==
    IF output.kind = "dict" THEN output.value
    ELSE LET direct == json_loads(output.raw)
             match  == BraceMatch(output.raw)
         IN  IF direct.type # "JSONDecodeError" THEN direct
             ELSE IF ~match.found THEN JSONDecodeError
             ELSE json_loads(match.text)

Truthy(parsed) == IF parsed.type = "dict" THEN TRUE ELSE parsed.truthy

\* the end of CrewMultiAgentService.run, from the output of the crew: None, the
\* verdict with the sources of this run attached, or the TypeError of an item
\* assignment on a value that is not a dict
RunNone == [raised |-> FALSE, result |-> JSONDecodeError]

\* a run that attaches every source it gathered
attach_sources_uncapped(parsed, latest_sources, context_limit) ==
    IF ~Truthy(parsed) THEN RunNone
    ELSE IF parsed.type # "dict"
    THEN [raised |-> TRUE, result |-> parsed,
          message |-> <<"object does not support item assignment">>]
    ELSE [raised |-> FALSE, result |-> [parsed EXCEPT !.sources = latest_sources]]

attach_sources(parsed, latest_sources, context_limit) ==
    IF ~Truthy(parsed) THEN RunNone
    ELSE IF parsed.type # "dict"
    THEN [raised |-> TRUE, result |-> parsed,
          message |-> <<"object does not support item assignment">>]
    ELSE [raised |-> FALSE,
          result |-> [parsed EXCEPT !.sources =
                                      Prefix(latest_sources, Max(context_limit, 3))]]

----------------------------------------------------------------------------
(* Answer orchestration pipeline: RAGService.ask_question.                  *)

NoInformationText == <<"Je n'ai pas trouve d'informations pertinentes dans les documents juridiques disponibles pour repondre a votre question.">>

ErrorPrefix == <<"Une erreur s'est produite lors du traitement de votre question: ">>

\* a service that answers "not initialized" with an Answer instead of raising
NotInitialized_answered == Answer(<<"Service RAG non initialise">>, <<>>, 0, "0.0")

NotInitialized == [found |-> TRUE, raised |-> TRUE, message |-> <<"Service RAG non initialise">>]

\* an exception that leaves ask_question instead of becoming an Answer
ErrorAnswer_propagated(message) == [found |-> TRUE, raised |-> TRUE, message |-> message]

\* the Answer of the "except Exception" clause
ErrorAnswer(message) == Answer(ErrorPrefix \o message, <<>>, 0, "elapsed")

\* a "no information found" Answer that claims some confidence
NoInformationAnswer_confident == Answer(NoInformationText, <<>>, 50, "elapsed")

\* the Answer returned when the classical retrieval finds no source
NoInformationAnswer == Answer(NoInformationText, <<>>, 0, "elapsed")

\* a retrieval limited to context_limit results
ClassicalSearch_at_limit(context_limit) == [n_results |-> context_limit, min_score |-> 0]

\* the arguments of the global retrieval: n_results=max(5, context_limit),
\* min_score=0.0
ClassicalSearch(context_limit) == [n_results |-> Max(5, context_limit), min_score |-> 0]

\* before the validation step: no answer_text nor confidence_score yet, no
\* validation_result
NoDraft == [answer |-> <<>>, confidence_score |-> 0]

NoValidation == [validated_answer |-> <<>>, validation_score |-> 0]

Idle == [pc |-> "idle", request |-> [question |-> <<>>, context_limit |-> 0],
         tasks |-> <<>>, cursor |-> 0]

NoTrace == [question |-> <<>>, context_limit |-> 0, path |-> "none",
            coordinator |-> "skipped", calls |-> {}, searches |-> {}, retrieved |-> <<>>,
            exceptions |-> {}, draft |-> NoDraft, validation |-> NoValidation]

\* the backends a request meets after the coordinator: the answers of the global
\* index query, of the local model and of the cloud model
Backends(coll) ==
    [global : GlobalResults(coll), generate : GenerateOutcomes, validate : ValidateOutcomes]

\* float(multi_agent_result.get("confidence", 0.75))
VerdictConfidence(confidence) ==
    IF confidence.kind = "absent" THEN [raised |-> FALSE, value |-> 75]
    ELSE IF confidence.kind = "num" THEN [raised |-> FALSE, value |-> confidence.value]
    ELSE [raised |-> TRUE, value |-> 0]

\* an Answer that takes the score of the validation as its confidence
Validated_score_only(draft, validation) ==
    Answer(validation.validated_answer, draft.sources, validation.validation_score,
           "elapsed")

\* the validation step: answer_text = validation_result.get("validated_answer"),
\* confidence_score = max(confidence_score, validation_result.get("validation_score"))
Validated(draft, validation) ==
    Answer(validation.validated_answer, draft.sources,
           Max(draft.confidence_score, validation.validation_score), "elapsed")

\* ask_question from line 92 to its return, given what the coordinator returned
\* (mar): the Answer, whether it is saved to history, the path taken and the
\* backends called on the way
Pipeline(question, context_limit, mar, calls, gemini, ollama, env) ==
    LET search     == ClassicalSearch(context_limit)
        global     == search_similar_documents(env.global, search.n_results,
                                               search.min_score)
        searched   == {search}
        use_crew   == ~mar.raised /\ mar.result.type = "dict"
                      /\ mar.result.has_answer /\ mar.result.answer # <<>>
        confidence == VerdictConfidence(mar.result.confidence)
        generated  == generate_answer_with_ollama(ollama, global, env.generate)
        draft      ==
            IF use_crew
            THEN [answer |-> mar.result.answer,
                  sources |-> IF mar.result.sources = <<>> THEN global ELSE mar.result.sources,
                  confidence_score |-> confidence.value,
                  calls |-> calls \cup (IF mar.result.sources = <<>> THEN {"retrieval"} ELSE {}),
                  searches |-> IF mar.result.sources = <<>> THEN searched ELSE {},
                  retrieved |-> IF mar.result.sources = <<>> THEN <<Len(global)>> ELSE <<>>,
                  path |-> "crew"]
            ELSE [answer |-> generated.answer, sources |-> global,
                  confidence_score |-> generated.confidence_score,
                  calls |-> calls \cup {"retrieval", "generation"},
                  searches |-> searched, retrieved |-> <<Len(global)>>,
                  path |-> "classical"]
        validation == validate_answer_with_gemini(gemini, draft.answer, env.validate)
        final      ==
            IF gemini
            THEN Validated(draft, validation)
            ELSE Answer(draft.answer, draft.sources, draft.confidence_score, "elapsed")
    IN  IF mar.raised
        THEN [answer |-> ErrorAnswer(mar.message), save |-> FALSE, path |-> "error",
              calls |-> calls, searches |-> {}, retrieved |-> <<>>,
              exceptions |-> {"coordinator"}, draft |-> NoDraft,
              validation |-> NoValidation]
        ELSE IF use_crew /\ confidence.raised
        THEN [answer |-> ErrorAnswer(<<"could not convert string to float">>),
              save |-> FALSE, path |-> "error",
              calls |-> calls \cup (IF mar.result.sources = <<>> THEN {"retrieval"} ELSE {}),
              searches |-> draft.searches, retrieved |-> draft.retrieved,
              exceptions |-> {"float"}, draft |-> NoDraft, validation |-> NoValidation]
        ELSE IF ~use_crew /\ global = <<>>
        THEN [answer |-> NoInformationAnswer, save |-> FALSE,
              path |-> "empty", calls |-> calls \cup {"retrieval"}, searches |-> searched,
              retrieved |-> <<0>>, exceptions |-> {}, draft |-> NoDraft,
              validation |-> NoValidation]
        ELSE IF ~use_crew /\ generated.raised
        THEN [answer |-> ErrorAnswer(generated.message), save |-> FALSE, path |-> "error",
              calls |-> calls \cup {"retrieval", "generation"}, searches |-> searched,
              retrieved |-> <<Len(global)>>, exceptions |-> {"generation"},
              draft |-> NoDraft, validation |-> NoValidation]
        ELSE [answer |-> final, save |-> TRUE, path |-> draft.path,
              calls |-> draft.calls \cup (IF gemini THEN {"validation"} ELSE {}),
              searches |-> draft.searches, retrieved |-> draft.retrieved,
              exceptions |-> {},
              draft |-> [answer |-> draft.answer,
                         confidence_score |-> draft.confidence_score],
              validation |-> IF gemini THEN validation ELSE NoValidation]

\* the return of ask_question: the Answer goes to the caller and, when it is
\* saved, _save_to_history appends the entry and rewrites the durable log
Return(request, coordinator, out, write_ok) ==
    /\ response' = out.answer
    /\ trace' = [question |-> request.question, context_limit |-> request.context_limit,
                 path |-> out.path, coordinator |-> coordinator, calls |-> out.calls,
                 searches |-> out.searches, retrieved |-> out.retrieved,
                 exceptions |-> out.exceptions, draft |-> out.draft,
                 validation |-> out.validation]
    /\ IF out.save
       THEN /\ conversation_history' =
                   save_to_history(conversation_history, next_uuid, request.question,
                                   out.answer)
            /\ history_file' =
                   persist_history_to_file(conversation_history', history_file, write_ok)
            /\ next_uuid' = next_uuid + 1
       ELSE UNCHANGED <<conversation_history, history_file, next_uuid>>


\* the tasks handed to Crew(...): one asynchronous task per active agent, then
\* the supervisor task, synchronous, with all of them as its context
Task(agent, async_execution, context) ==
    [agent |-> agent, async_execution |-> async_execution, context |-> context,
     status |-> "created"]

\* a crew whose supervisor task is asynchronous like the others
CrewTasks_all_async(active_agents) ==
    [i \in 1..Len(active_agents) |-> Task(active_agents[i], TRUE, {})]
    \o <<Task("supervisor", TRUE, 1..Len(active_agents))>>

CrewTasks(active_agents) ==
    [i \in 1..Len(active_agents) |-> Task(active_agents[i], TRUE, {})]
    \o <<Task("supervisor", FALSE, 1..Len(active_agents))>>

\* what crew.kickoff() does: it raises, or returns the output of the supervisor
KickoffRaised == [raised |-> TRUE, output |-> TextOutput(<<>>)]

KickoffOutcomes ==
    {KickoffRaised} \cup {[raised |-> FALSE, output |-> o] : o \in SupervisorOutputs}

\* the end of CrewMultiAgentService.run once crew.kickoff() is over: None when
\* it raised, else the parsed output with the sources of the run
end_of_run(latest_sources, context_limit, kickoff) ==
    LET mar == attach_sources(parse_supervisor_output(kickoff.output), latest_sources,
                              context_limit)
    IN  IF kickoff.raised THEN [mar |-> RunNone, stage |-> "kickoff_raised"]
        ELSE [mar |-> mar,
              stage |-> IF mar.raised THEN "raised"
                        ELSE IF mar.result.type # "dict" THEN "no_result"
                        ELSE IF mar.result.has_answer /\ mar.result.answer # <<>>
                        THEN "verdict" ELSE "no_answer"]

\* CrewMultiAgentService.run: what it returns (mar), the service with the sources
\* of this run, how the run ended and what it called
run_crew(service, results, context_limit, kickoff) ==
    LET prepared == prepare_dataset_contexts(service, results, context_limit)
        active   == ActiveAgents(service.dataset_agents, prepared.contexts)
        gathered == [service EXCEPT !.latest_sources = prepared.aggregated_sources]
        end      == end_of_run(prepared.aggregated_sources, context_limit, kickoff)
    IN  IF ~service.is_available \/ service.dataset_agents = <<>> \/ ~service.supervisor_agent
        THEN [mar |-> RunNone, service |-> service, stage |-> "unavailable",
              calls |-> {"coordinator"}, tasks |-> <<>>]
        ELSE IF active = <<>>
        THEN [mar |-> RunNone, service |-> gathered, stage |-> "no_context",
              calls |-> {"coordinator", "partition_search"}, tasks |-> <<>>]
        ELSE [mar |-> end.mar, service |-> gathered, stage |-> end.stage,
              calls |-> {"coordinator", "partition_search", "kickoff"},
              tasks |-> CrewTasks(active)]

CoordinatorSkipped(service) ==
    [mar |-> RunNone, service |-> service, stage |-> "skipped", calls |-> {}, tasks |-> <<>>]

\* the requests of the model: greetings, closings and thanks in several
\* spellings, a question that starts with a greeting, and one question in two
\* spellings
Requests ==
    { [question |-> <<"H","i">>, context_limit |-> 5],
      [question |-> <<" ","b","y","e"," ">>, context_limit |-> 5],
      [question |-> <<"M","e","r","c","i","\n">>, context_limit |-> 5],
      [question |-> <<"h","i",","," ","t","v","a","?">>, context_limit |-> 6],
      [question |-> <<"t","v","a","?">>, context_limit |-> 1],
      [question |-> <<" ","T","V","A","?"," ">>, context_limit |-> 6] }

\* the ways the coordinator part of a request can go
CoordinatorRuns(request) ==
    IF mas.exists /\ mas.is_available
    THEN {run_crew(mas, r, request.context_limit, k) :
             r \in PartitionAnswers(collection), k \in KickoffOutcomes}
    ELSE {CoordinatorSkipped(mas)}

\* the ways the rest of the request can go after the coordinator part
PipelineOutcomes(request, crew) ==
    {Pipeline(request.question, request.context_limit, crew.mar,
              {"cache_lookup"} \cup crew.calls, llm.gemini, llm.ollama, env) :
        env \in Backends(collection)}

\* a return of ask_question that saves an entry for the Answer before returning
ReturnDirect_recorded(request, answer, path, calls) ==
    /\ response' = answer
    /\ trace' = [NoTrace EXCEPT !.question = request.question,
                                !.context_limit = request.context_limit,
                                !.path = path, !.calls = calls]
    /\ conversation_history' =
           IF answer.raised THEN conversation_history
           ELSE save_to_history(conversation_history, next_uuid, request.question, answer)
    /\ history_file' =
           IF answer.raised THEN history_file
           ELSE persist_history_to_file(conversation_history', history_file, TRUE)
    /\ UNCHANGED <<mas, next_uuid>>

\* the returns of ask_question before the pipeline: the exception of a service
\* that is not initialized, the canned reply, the cached Answer
ReturnDirect(request, answer, path, calls) ==
    /\ response' = answer
    /\ trace' = [NoTrace EXCEPT !.question = request.question,
                                !.context_limit = request.context_limit,
                                !.path = path, !.calls = calls]
    /\ UNCHANGED <<conversation_history, history_file, mas, next_uuid>>

\* ask_question, as long as fewer than "saves" entries were ever recorded
Ask(request, write_ok, saves) ==
    /\ run.pc = "idle"
    /\ UNCHANGED <<settings, is_initialized, llm, collection, run>>
    /\ IF ~is_initialized
       THEN ReturnDirect(Idle.request, NotInitialized, "not_initialized", {})
       ELSE LET greeting_response == handle_greetings(request.question)
                cached_response   == check_history_cache(conversation_history,
                                                         request.question)
            IN  IF greeting_response.found
                THEN ReturnDirect(request, greeting_response, "greeting", {})
                ELSE IF cached_response.found
                THEN ReturnDirect(request, cached_response, "cache", {"cache_lookup"})
                ELSE /\ next_uuid <= saves
                     /\ \E crew \in CoordinatorRuns(request) :
                           /\ mas' = crew.service
                           /\ \E out \in PipelineOutcomes(request, crew) :
                                 Return(request, crew.stage, out, write_ok)

AskQuestion(request, write_ok) == Ask(request, write_ok, MaxRequests)

----------------------------------------------------------------------------
(* Service life cycle: RAGService.__init__, initialize, reload_data,        *)
(* clear_history.                                                           *)

Done(operation, ok) ==
    [found |-> TRUE, raised |-> FALSE, operation |-> operation, ok |-> ok]

\* a new process: RAGService() builds its LLMService and loads the history
Restart(handles, load_ok) ==
    /\ run.pc = "idle"
    /\ is_initialized' = FALSE
    /\ llm' = handles
    /\ mas' = NoService
    /\ conversation_history' = load_history_from_file(history_file, load_ok)
    /\ response' = Done("construct", TRUE)
    /\ trace' = NoTrace
    /\ UNCHANGED <<settings, history_file, collection, run, next_uuid>>

\* the index and the coordinator after documents of the files "files" were
\* loaded and those of "added" reached the index
Reindex(files, added, llm_ok) ==
    LET agents == initialize_multi_agent(mas, settings, files, llm_ok)
    IN  IF files = {} THEN [ok |-> FALSE, collection |-> collection, mas |-> mas]
        ELSE IF added # files THEN [ok |-> FALSE, collection |-> added, mas |-> mas]
        ELSE [ok |-> ~agents.raised, collection |-> added, mas |-> agents.service]

Initialize(files, added, llm_ok) ==
    /\ run.pc = "idle"
    /\ ~is_initialized
    /\ added \in {{}, files}
    /\ LET done == Reindex(files, added, llm_ok)
       IN  /\ collection' = done.collection
           /\ mas' = done.mas
           /\ is_initialized' = done.ok
           /\ response' = Done("initialize", done.ok)
    /\ trace' = NoTrace
    /\ UNCHANGED <<settings, conversation_history, history_file, llm, run, next_uuid>>

ReloadData(files, added, llm_ok) ==
    /\ run.pc = "idle"
    /\ added \in {{}, files}
    /\ LET done == Reindex(files, added, llm_ok)
       IN  /\ collection' = done.collection
           /\ mas' = done.mas
           /\ is_initialized' = (is_initialized \/ done.ok)
           /\ response' = [found |-> TRUE, raised |-> FALSE, operation |-> "reload_data",
                           ok |-> done.ok,
                           documents_processed |-> IF done.ok THEN Cardinality(files) ELSE 0]
    /\ trace' = NoTrace
    /\ UNCHANGED <<settings, conversation_history, history_file, llm, run, next_uuid>>

ClearHistory ==
    /\ run.pc = "idle"
    /\ conversation_history' = <<>>
    /\ response' = Done("clear_history", TRUE)
    /\ trace' = NoTrace
    /\ UNCHANGED <<settings, is_initialized, history_file, llm, collection, mas, run,
                   next_uuid>>

----------------------------------------------------------------------------
(* Specification of the service.                                            *)

\* the process environments of the model: the settings, the libraries
\* installed, and the handles LLMService.__init__ obtains in them
Worlds ==
    { [ENABLE_CREW_AGENTS |-> TRUE,  crewai_installed |-> TRUE,  ollama |-> TRUE,  gemini |-> TRUE],
      [ENABLE_CREW_AGENTS |-> TRUE,  crewai_installed |-> FALSE, ollama |-> TRUE,  gemini |-> FALSE],
      [ENABLE_CREW_AGENTS |-> FALSE, crewai_installed |-> TRUE,  ollama |-> FALSE, gemini |-> TRUE] }

\* the source files of the documents load_all_csv_files can return
Corpora == { {}, Partitions }

Init ==
    /\ \E w \in Worlds :
          /\ settings = [ENABLE_CREW_AGENTS |-> w.ENABLE_CREW_AGENTS,
                         crewai_installed |-> w.crewai_installed]
          /\ llm = [ollama |-> w.ollama, gemini |-> w.gemini]
    /\ is_initialized = FALSE
    /\ conversation_history = <<>>
    /\ history_file = HISTORY_FILE_ABSENT
    /\ collection = {}
    /\ mas = NoService
    /\ run = Idle
    /\ response = NoAnswer
    /\ trace = NoTrace
    /\ next_uuid = 1

Next ==
    \/ \E request \in Requests : AskQuestion(request, TRUE)
    \/ Restart(llm, TRUE)
    \/ \E files \in Corpora, added \in Corpora, llm_ok \in BOOLEAN :
          Initialize(files, added, llm_ok)
    \/ \E files \in Corpora, added \in Corpora, llm_ok \in BOOLEAN :
          ReloadData(files, added, llm_ok)
    \/ ClearHistory

Spec == Init /\ [][Next]_vars

TypeOK ==
    /\ is_initialized \in BOOLEAN
    /\ run.pc \in {"idle", "crew"}
    /\ next_uuid \in 1..(MaxRequests + 1)

----------------------------------------------------------------------------
(* The run of the crew, task by task. Crew(process=Process.sequential) takes *)
(* the tasks in order: an asynchronous task is started in its own thread and *)
(* the crew goes on; a synchronous task first waits for the threads started  *)
(* before it, then runs in the thread of the crew.                           *)

\* ask_question from its entry to crew.kickoff(), for a request that gets there
CrewKickoff(request, results) ==
    LET crew == run_crew(mas, results, request.context_limit, KickoffRaised)
    IN  /\ run.pc = "idle"
        /\ is_initialized
        /\ ~handle_greetings(request.question).found
        /\ ~check_history_cache(conversation_history, request.question).found
        /\ mas.exists /\ mas.is_available
        /\ next_uuid <= MaxRequests
        /\ crew.tasks # <<>>
        /\ mas' = crew.service
        /\ run' = [pc |-> "crew", request |-> request, tasks |-> crew.tasks, cursor |-> 1]
        /\ response' = NoAnswer
        /\ trace' = NoTrace
        /\ UNCHANGED <<settings, is_initialized, conversation_history, history_file, llm,
                       collection, next_uuid>>

\* the crew starts the asynchronous task under its cursor and moves on
CrewLaunch ==
    /\ run.pc = "crew"
    /\ run.cursor <= Len(run.tasks)
    /\ run.tasks[run.cursor].async_execution
    /\ run' = [run EXCEPT !.tasks[run.cursor].status = "running",
                          !.cursor = run.cursor + 1]
    /\ UNCHANGED <<settings, is_initialized, conversation_history, history_file, llm,
                   collection, mas, response, trace, next_uuid>>

\* the thread of a specialist ends, with an output or with an exception
SpecialistEnds(i, ok) ==
    /\ run.pc = "crew"
    /\ i \in 1..(Len(run.tasks) - 1)
    /\ run.tasks[i].status = "running"
    /\ run' = [run EXCEPT !.tasks[i].status = IF ok THEN "done" ELSE "failed"]
    /\ UNCHANGED <<settings, is_initialized, conversation_history, history_file, llm,
                   collection, mas, response, trace, next_uuid>>

\* the threads started before the task under the cursor
Pending == {i \in 1..(run.cursor - 1) : run.tasks[i].async_execution}

\* the synchronous task under the cursor starts once every thread started
\* before it has ended with an output
SupervisorStarts ==
    /\ run.pc = "crew"
    /\ run.cursor <= Len(run.tasks)
    /\ ~run.tasks[run.cursor].async_execution
    /\ run.tasks[run.cursor].status = "created"
    /\ \A i \in Pending : run.tasks[i].status = "done"
    /\ run' = [run EXCEPT !.tasks[run.cursor].status = "running"]
    /\ UNCHANGED <<settings, is_initialized, conversation_history, history_file, llm,
                   collection, mas, response, trace, next_uuid>>

\* the rest of ask_question once crew.kickoff() is over
AfterKickoff(kickoff, write_ok) ==
    LET end  == end_of_run(mas.latest_sources, run.request.context_limit, kickoff)
        crew == [mar |-> end.mar, service |-> mas, stage |-> end.stage,
                 calls |-> {"coordinator", "partition_search", "kickoff"},
                 tasks |-> run.tasks]
    IN  /\ run' = Idle
        /\ \E out \in PipelineOutcomes(run.request, crew) :
              Return(run.request, crew.stage, out, write_ok)
        /\ UNCHANGED <<settings, is_initialized, llm, collection, mas>>

\* waiting for the threads, the crew meets one that ended with an exception:
\* the threads before it have ended, the others may still run
CrewJoinRaises(write_ok) ==
    /\ run.pc = "crew"
    /\ run.cursor <= Len(run.tasks)
    /\ ~run.tasks[run.cursor].async_execution
    /\ run.tasks[run.cursor].status = "created"
    /\ \E i \in Pending :
          /\ run.tasks[i].status = "failed"
          /\ \A j \in Pending : j < i => run.tasks[j].status \in {"done", "failed"}
    /\ AfterKickoff(KickoffRaised, write_ok)

\* the supervisor raises
SupervisorRaises(write_ok) ==
    /\ run.pc = "crew"
    /\ run.tasks[Len(run.tasks)].status = "running"
    /\ AfterKickoff(KickoffRaised, write_ok)

\* the supervisor ends with an output, which crew.kickoff() returns
CrewReturns(output, write_ok) ==
    /\ run.pc = "crew"
    /\ run.tasks[Len(run.tasks)].status = "running"
    /\ AfterKickoff([raised |-> FALSE, output |-> output], write_ok)

\* a service of the first environment, initialized on both partitions, that has
\* answered nothing yet
InitCrew ==
    /\ settings = [ENABLE_CREW_AGENTS |-> TRUE, crewai_installed |-> TRUE]
    /\ llm = [ollama |-> TRUE, gemini |-> TRUE]
    /\ is_initialized = TRUE
    /\ conversation_history = <<>>
    /\ history_file = HISTORY_FILE_ABSENT
    /\ collection = Partitions
    /\ mas = initialize_multi_agent(NoService, settings, Partitions, TRUE).service
    /\ run = Idle
    /\ response = Done("initialize", TRUE)
    /\ trace = NoTrace
    /\ next_uuid = 1

\* the event loop runs the handler of a request that ask_question answers
\* before its pipeline, with a canned reply or from the cache. ask_question
\* holds no await: a handler runs from its first line to its return in the one
\* thread of the loop, so none starts while another is inside crew.kickoff()
AnswerDirectly(request) ==
    /\ is_initialized
    /\ \/ handle_greetings(request.question).found
       \/ check_history_cache(conversation_history, request.question).found
    /\ AskQuestion(request, TRUE)

\* ask_question for a request whose coordinator run finds no context in any
\* partition: run returns None before any task is created
CoordinatorFindsNothing(request, results) ==
    LET crew == run_crew(mas, results, request.context_limit, KickoffRaised)
    IN  /\ run.pc = "idle"
        /\ is_initialized
        /\ ~handle_greetings(request.question).found
        /\ ~check_history_cache(conversation_history, request.question).found
        /\ mas.exists /\ mas.is_available
        /\ next_uuid <= MaxRequests
        /\ crew.tasks = <<>>
        /\ mas' = crew.service
        /\ \E out \in PipelineOutcomes(request, crew) :
              Return(request, crew.stage, out, TRUE)
        /\ UNCHANGED <<settings, is_initialized, llm, collection, run>>

\* what the queries of one run can return in the runs followed task by task:
\* the answers above, and two qualifying candidates in each partition
CrewPartitionAnswers(coll) ==
    PartitionAnswers(coll)
    \cup {[f \in Partitions |-> IF f \notin coll THEN QueryOk(<<>>)
                                ELSE QueryOk(<<NearHit(f), LongHit(f)>>)]}

\* the outputs of the supervisor in the runs followed task by task: those of
\* SupervisorOutputs and a verdict whose confidence is above 1
CrewOutputs == SupervisorOutputs \cup {CrewOutput(<<"{", "overconf", "}">>)}

NextCrew ==
    \/ \E request \in Requests, results \in CrewPartitionAnswers(collection) :
          CrewKickoff(request, results)
    \/ CrewLaunch
    \/ \E i \in 1..Cardinality(Partitions), ok \in BOOLEAN : SpecialistEnds(i, ok)
    \/ SupervisorStarts
    \/ CrewJoinRaises(TRUE)
    \/ SupervisorRaises(TRUE)
    \/ \E output \in CrewOutputs : CrewReturns(output, TRUE)
    \/ \E request \in Requests : AnswerDirectly(request)
    \/ \E request \in Requests, results \in PartitionAnswers(collection) :
          CoordinatorFindsNothing(request, results)
    \/ ClearHistory

SpecCrew == InitCrew /\ [][NextCrew]_vars

----------------------------------------------------------------------------
(* A long conversation: a service without coordinator nor validation model  *)
(* that is asked a new question each time, and now and then the first one.  *)

\* the k-th question of the conversation
Question(k) == <<"T", "V", "A">> \o [i \in 1..k |-> "?"]

InitHist ==
    /\ settings = [ENABLE_CREW_AGENTS |-> TRUE, crewai_installed |-> FALSE]
    /\ llm = [ollama |-> TRUE, gemini |-> FALSE]
    /\ is_initialized = TRUE
    /\ conversation_history = <<>>
    /\ history_file = HISTORY_FILE_ABSENT
    /\ collection = Partitions
    /\ mas = initialize_multi_agent(NoService, settings, Partitions, TRUE).service
    /\ run = Idle
    /\ response = Done("initialize", TRUE)
    /\ trace = NoTrace
    /\ next_uuid = 1

NextHist ==
    \E question \in {Question(next_uuid), Question(1)} :
        Ask([question |-> question, context_limit |-> 5], TRUE, MaxAppends)

SpecHist == InitHist /\ [][NextHist]_vars

----------------------------------------------------------------------------
(* Properties of the orchestration pipeline.                                *)

\* the state right after ask_question returned on an initialized service
Answered == trace # NoTrace /\ is_initialized

\* the entries of a history recorded for a question, up to case and
\* surrounding whitespace
RecordedFor(history, question) ==
    {i \in 1..Len(history) : Normalize(history[i].question) = Normalize(question)}

C2_WitnessContained ==
    /\ Answered
    /\ \E i \in 1..Len(greetings) : Contains(Normalize(trace.question), greetings[i])
    /\ trace.path \notin {"greeting", "cache"}

(* C3: on an initialized service ask_question returns an Answer and never    *)
(* raises; when the coordinator, the conversion of its confidence or the     *)
(* local generation raised during the request, the Answer has no source,     *)
(* confidence 0 and the text of the exception after the error prefix.        *)
C3_ExceptionsBecomeAnswers ==
    Answered =>
        /\ response.found
        /\ ~response.raised
        /\ (trace.exceptions # {} \/ trace.path = "error") =>
              /\ trace.exceptions # {}
              /\ trace.path = "error"
              /\ response.sources = <<>>
              /\ response.confidence_score = 0
              /\ Len(response.answer) > Len(ErrorPrefix)
              /\ Prefix(response.answer, Len(ErrorPrefix)) = ErrorPrefix

\* the local generation raised and the caller got the degraded Answer
C3_Witness ==
    /\ Answered
    /\ trace.exceptions = {"generation"}
    /\ response.answer = ErrorPrefix \o <<"connection refused">>
    /\ response.confidence_score = 0

(* C4: when the coordinator is not available, or its run gives no result (no *)
(* partition qualifies, the crew raises, the output of the supervisor cannot *)
(* be parsed), or its verdict has no answer text, the request is answered by *)
(* the classical path: one global retrieval with min_score 0 and             *)
(* n_results = max(5, context_limit), then the local generation unless the   *)
(* retrieval found nothing.                                                  *)
C4_ClassicalFallback ==
    ( /\ Answered
      /\ trace.path \notin {"greeting", "cache"}
      /\ trace.coordinator \in {"skipped", "unavailable", "no_context", "kickoff_raised",
                                "no_result", "no_answer"} ) =>
        /\ trace.path \in {"classical", "empty", "error"}
        /\ "retrieval" \in trace.calls
        /\ trace.searches =
              {[n_results |-> IF trace.context_limit > 5 THEN trace.context_limit ELSE 5,
                min_score |-> 0]}
        /\ ("generation" \in trace.calls) <=> (trace.retrieved # <<0>>)
        /\ trace.path = "error" => trace.exceptions = {"generation"}

\* the output of the supervisor could not be parsed and the local model
\* answered from six or fewer sources of the global retrieval
C4_Witness ==
    /\ Answered
    /\ trace.coordinator = "no_result"
    /\ trace.path = "classical"
    /\ trace.context_limit = 6
    /\ "generation" \in trace.calls

(* C5: in the classical path, when the retrieval returns no source, the      *)
(* Answer is the fixed "no information found" text with confidence 0.0 and   *)
(* no source, and neither the local generation nor the validation is called. *)
C5_EmptyRetrieval ==
    ( /\ Answered
      /\ trace.coordinator \notin {"verdict", "raised"}
      /\ trace.retrieved = <<0>> ) =>
        /\ response.answer = NoInformationText
        /\ response.confidence_score = 0
        /\ response.sources = <<>>
        /\ "generation" \notin trace.calls
        /\ "validation" \notin trace.calls

\* the classical retrieval found nothing on a service with a validation model
C5_Witness ==
    /\ Answered
    /\ llm.gemini
    /\ trace.retrieved = <<0>>
    /\ trace.path = "empty"
    /\ response.answer = NoInformationText

\* the step is a return of ask_question on an initialized service by a path
\* other than the greeting reply and the cache hit
PipelineReturn ==
    /\ is_initialized
    /\ trace' # NoTrace
    /\ trace'.path \notin {"greeting", "cache"}

\* the step appends exactly one entry, for the question and the Answer returned
OneEntryAppended ==
    /\ Len(conversation_history') = Len(conversation_history) + 1
    /\ SubSeq(conversation_history', 1, Len(conversation_history)) = conversation_history
    /\ conversation_history'[Len(conversation_history')].question = trace'.question
    /\ conversation_history'[Len(conversation_history')].answer = response'.answer

(* C6: the history never holds more than 100 entries; it holds the entries  *)
(* appended last, as many as were appended and at most 100, the oldest one  *)
(* first: after n appends its entries are those of the appends              *)
(* n - len + 1 .. n in that order.                                          *)
C6_HistoryBounded ==
    /\ Len(conversation_history) <= 100
    /\ Len(conversation_history) = IF next_uuid - 1 > 100 THEN 100 ELSE next_uuid - 1
    /\ \A i \in 1..Len(conversation_history) :
          conversation_history[i].id = next_uuid - 1 - Len(conversation_history) + i

\* 102 entries were appended and the history holds the last 100 of them
C6_Witness ==
    /\ next_uuid = 103
    /\ Len(conversation_history) = 100
    /\ conversation_history[1].id = 3
    /\ conversation_history[100].id = 102

C8_DirectAnswersLeaveHistory ==
    [][ (is_initialized /\ trace' # NoTrace /\ trace'.path \in {"greeting", "cache"}) =>
            /\ conversation_history' = conversation_history
            /\ history_file' = history_file
      ]_vars

\* a greeting was answered while the history held an entry
C8_Witness ==
    /\ Answered
    /\ trace.path = "greeting"
    /\ conversation_history # <<>>
    /\ history_file.exists

\* the entries written in a history file, in the order of the file
FileEntries(file) ==
    [i \in 1..Len(file.content) |->
        [id |-> file.content[i][1], question |-> file.content[i][2],
         answer |-> file.content[i][3], sources |-> file.content[i][4],
         confidence_score |-> file.content[i][5]]]

C10_SupervisorAfterSpecialists ==
    (run.pc = "crew" /\ run.tasks[Len(run.tasks)].status # "created") =>
        /\ run.tasks[Len(run.tasks)].context = 1..(Len(run.tasks) - 1)
        /\ \A i \in 1..(Len(run.tasks) - 1) :
              /\ run.tasks[i].status \in {"done", "failed"}
              /\ i \in run.tasks[Len(run.tasks)].context => run.tasks[i].status = "done"

\* two specialists were started and the supervisor runs
C10_Witness ==
    /\ run.pc = "crew"
    /\ Len(run.tasks) = 3
    /\ run.tasks[3].status = "running"
    /\ run.tasks[1].status = "done"
    /\ run.tasks[2].status = "done"

----------------------------------------------------------------------------
(* Properties of the coordinator.                                           *)

(* C11: a coordinator run in which no partition search returns a source      *)
(* builds no agent, no task and no crew, returns no result without raising,  *)
(* and ask_question then answers through the classical path: it queries the  *)
(* global index and the Answer is not made from a verdict.                   *)
C11_NoContextNoCrew ==
    /\ (trace # NoTrace /\ "partition_search" \in trace.calls
          /\ mas.latest_sources = <<>>) =>
           /\ trace.coordinator = "no_context"
           /\ "kickoff" \notin trace.calls
           /\ "coordinator" \notin trace.exceptions
           /\ "retrieval" \in trace.calls
           /\ trace.path \in {"classical", "empty", "error"}
           /\ trace.path = "error" => trace.exceptions = {"generation"}
    /\ \A results \in PartitionAnswers(collection), kickoff \in KickoffOutcomes :
          LET crew == run_crew(mas, results, trace.context_limit, kickoff)
          IN  (crew.stage = "no_context") =>
                 /\ crew.tasks = <<>>
                 /\ crew.mar = RunNone
                 /\ crew.service.dataset_agents = mas.dataset_agents
                 /\ crew.service.supervisor_agent = mas.supervisor_agent

\* the coordinator found no source in any partition and the request was
\* answered by the local model from the sources of the global index
C11_Witness ==
    /\ trace.coordinator = "no_context"
    /\ mas.dataset_agents # <<>>
    /\ trace.path = "classical"
    /\ response.sources # <<>>

----------------------------------------------------------------------------
(* The parsing of a supervisor output, on every output up to MaxTokens       *)
(* tokens: crew.kickoff() has returned and _parse_supervisor_output runs.    *)

MaxTokens == 5

\* the tokens of a supervisor text: braces, the body of a JSON object, a word
\* of prose, a number
Tokens == {"{", "}", "full", "mot", "42"}

Texts == UNION {[1..n -> Tokens] : n \in 0..MaxTokens}

\* the values crew.kickoff() can return: a dict, an object whose raw attribute
\* is a text, a text
ParseInputs ==
    {DictOutput(name) : name \in DOMAIN JsonObjects}
    \cup {CrewOutput(text) : text \in Texts}
    \cup {TextOutput(text) : text \in Texts}

InitParse ==
    /\ settings = [ENABLE_CREW_AGENTS |-> TRUE, crewai_installed |-> TRUE]
    /\ llm = [ollama |-> TRUE, gemini |-> TRUE]
    /\ is_initialized = TRUE
    /\ conversation_history = <<>>
    /\ history_file = HISTORY_FILE_ABSENT
    /\ collection = Partitions
    /\ mas = initialize_multi_agent(NoService, settings, Partitions, TRUE).service
    /\ \E output \in ParseInputs : run = [pc |-> "kickoff_returned", output |-> output]
    /\ response = NoAnswer
    /\ trace = NoTrace
    /\ next_uuid = 1

\* parsed = self._parse_supervisor_output(final_output)
ParseSupervisorOutput ==
    /\ run.pc = "kickoff_returned"
    /\ response' = [found |-> TRUE, raised |-> FALSE,
                    result |-> parse_supervisor_output(run.output)]
    /\ run' = [run EXCEPT !.pc = "parsed"]
    /\ UNCHANGED <<settings, is_initialized, conversation_history, history_file, llm,
                   collection, mas, trace, next_uuid>>

NextParse == ParseSupervisorOutput

SpecParse == InitParse /\ [][NextParse]_vars

\* the JSON objects written somewhere in a text
EmbeddedObjects(text) ==
    {json_loads(SubSeq(text, i, j)) : i \in 1..Len(text), j \in 1..Len(text)}
    \cap ({JsonObjects[name] : name \in DOMAIN JsonObjects}
          \cup {NotDict("empty_dict", FALSE)})

(* C12: the parsing of a supervisor output never raises. A dict is returned  *)
(* as it is; else the text of the output (its raw attribute when it has one) *)
(* is parsed as JSON and the value is returned; else, when a JSON object is  *)
(* written somewhere in the text, that object is returned; else the parsing  *)
(* returns no result.                                                        *)
C12_ParsingFallbackChain ==
    (run.pc = "parsed") =>
        /\ ~response.raised
        /\ IF run.output.kind = "dict" THEN response.result = run.output.value
           ELSE IF json_loads(run.output.raw) # JSONDecodeError
           THEN response.result = json_loads(run.output.raw)
           ELSE IF EmbeddedObjects(run.output.raw) # {}
           THEN response.result \in EmbeddedObjects(run.output.raw)
           ELSE response.result = JSONDecodeError

\* a JSON object between two words of prose was parsed
C12_Witness ==
    /\ run.pc = "parsed"
    /\ run.output.raw = <<"mot", "{", "full", "}", "mot">>
    /\ response.result = JsonObjects.full

(* C13: whatever crew.kickoff() returns, ask_question either makes its       *)
(* Answer from a verdict that carries an answer text or goes on with the     *)
(* classical path: when the output gives no such verdict (a text that is not *)
(* JSON, or JSON that is not an object) the request queries the global index *)
(* and does not end with the error Answer of a failed coordinator.           *)
C13_NoVerdictFallsBack ==
    (trace # NoTrace /\ "kickoff" \in trace.calls /\ trace.coordinator # "verdict") =>
        /\ "coordinator" \notin trace.exceptions
        /\ "retrieval" \in trace.calls
        /\ trace.path \in {"classical", "empty", "error"}
        /\ trace.path = "error" => trace.exceptions = {"generation"}

\* the supervisor text was not JSON and the request was answered by the
\* classical path
C13_Witness ==
    /\ trace.coordinator = "no_result"
    /\ "kickoff" \in trace.calls
    /\ trace.path = "classical"

----------------------------------------------------------------------------
(* Properties of the validation step.                                       *)

(* C14: when a cloud validation model is configured, the Answer of the       *)
(* pipeline carries the validated text and its confidence is the larger of   *)
(* the confidence before validation and the validation score; the validation *)
(* never lowers the confidence.                                              *)
C14_ValidationRaisesConfidence ==
    /\ (trace.path \in {"crew", "classical"} /\ llm.gemini) => "validation" \in trace.calls
    /\ ("validation" \in trace.calls) =>
          /\ llm.gemini
          /\ response.answer = trace.validation.validated_answer
          /\ response.confidence_score =
                 Max(trace.draft.confidence_score, trace.validation.validation_score)
          /\ response.confidence_score >= trace.draft.confidence_score

\* the validation replaced the text and scored lower than the confidence the
\* answer already had
C14_Witness ==
    /\ "validation" \in trace.calls
    /\ response.answer = ImprovedText
    /\ trace.draft.answer # ImprovedText
    /\ trace.validation.validation_score < trace.draft.confidence_score
    /\ response.confidence_score = trace.draft.confidence_score

----------------------------------------------------------------------------
(* The validation of an answer, on every kind of response of the cloud       *)
(* model: LLMService.validate_answer_with_gemini is called with an answer.   *)

MaxScore == 150

\* the scores a response can carry, in hundredths, some of them outside [0,1]
Scores == {s \in (0 - 50)..MaxScore : s % 50 = 0} \cup {90}

\* what gemini_model.generate_content can do: raise, answer with prose, with
\* JSON that is not an object, or with an object that has or lacks the keys
\* improved_answer and confidence_score
CloudResponses ==
    { [kind |-> "raises", has_answer |-> FALSE, has_score |-> FALSE, text |-> <<>>,
       score |-> 0],
      [kind |-> "not_json", has_answer |-> FALSE, has_score |-> FALSE,
       text |-> ProseText, score |-> 0],
      [kind |-> "json_not_object", has_answer |-> FALSE, has_score |-> FALSE,
       text |-> <<"42">>, score |-> 0] }
    \cup { [kind |-> "json", has_answer |-> a, has_score |-> b,
            text |-> IF a THEN ImprovedText ELSE <<>>, score |-> IF b THEN s ELSE 0] :
              a \in BOOLEAN, b \in BOOLEAN, s \in Scores }

InitValidate ==
    /\ settings = [ENABLE_CREW_AGENTS |-> FALSE, crewai_installed |-> TRUE]
    /\ \E gemini \in BOOLEAN : llm = [ollama |-> TRUE, gemini |-> gemini]
    /\ is_initialized = TRUE
    /\ conversation_history = <<>>
    /\ history_file = HISTORY_FILE_ABSENT
    /\ collection = Partitions
    /\ mas = NoService
    /\ \E answer \in {CitedText, VerdictAnswer, ShortText}, outcome \in CloudResponses :
          run = [pc |-> "validate", answer |-> answer, outcome |-> outcome]
    /\ response = NoAnswer
    /\ trace = NoTrace
    /\ next_uuid = 1

\* validation_result = self.llm_service.validate_answer_with_gemini(...)
ValidateAnswer ==
    /\ run.pc = "validate"
    /\ response' = [found |-> TRUE, raised |-> FALSE,
                    result |-> validate_answer_with_gemini(llm.gemini, run.answer,
                                                           run.outcome)]
    /\ run' = [run EXCEPT !.pc = "validated"]
    /\ UNCHANGED <<settings, is_initialized, conversation_history, history_file, llm,
                   collection, mas, trace, next_uuid>>

NextValidate == ValidateAnswer

SpecValidate == InitValidate /\ [][NextValidate]_vars

(* C15: the validation never raises; when the cloud model is absent, when    *)
(* the call fails and when the response is not the expected JSON, it returns *)
(* the answer it was given, unchanged, with the neutral score 0.5.           *)
C15_ValidationFailureKeepsAnswer ==
    (run.pc = "validated") =>
        /\ ~response.raised
        /\ ( \/ ~llm.gemini
             \/ run.outcome.kind \in {"raises", "not_json", "json_not_object"}
             \/ (run.outcome.kind = "json" /\ ~run.outcome.has_answer
                   /\ ~run.outcome.has_score) ) =>
              response.result = [validated_answer |-> run.answer, validation_score |-> 50]

\* the call to the cloud model raised and the answer came back unchanged
C15_Witness ==
    /\ run.pc = "validated"
    /\ llm.gemini
    /\ run.outcome.kind = "raises"
    /\ response.result = [validated_answer |-> run.answer, validation_score |-> 50]

(* C16: every Answer ask_question returns has a confidence within [0,1],     *)
(* whatever confidence the verdict of the supervisor carries and whatever    *)
(* score the response of the cloud model carries.                            *)
C16_ConfidenceInUnitInterval ==
    (trace # NoTrace /\ ~response.raised) =>
        (0 <= response.confidence_score /\ response.confidence_score <= 100)

\* a verdict with a confidence in [0,1] was validated with a score in [0,1], and
\* the Answer carries the larger of the two
C16_Witness ==
    /\ trace.path = "crew"
    /\ "validation" \in trace.calls
    /\ trace.draft.confidence_score = 75
    /\ trace.validation.validation_score = 90
    /\ response.confidence_score = 90

----------------------------------------------------------------------------
(* The two searches of VectorStore, on every list of up to MaxCandidates     *)
(* candidates: the index has answered the query and the search scores and    *)
(* filters the candidates.                                                   *)

MaxCandidates == 3

\* the raw distances of a candidate: missing, not a number, negative, within
\* [0,1], above 1
Distances ==
    {NoDistance, [kind |-> "text", d |-> 0]}
    \cup {Dist(d) : d \in {0 - 150, 0 - 50, 0, 97, 300}}

CandidateLists ==
    UNION {[1..n -> {Hit("code_commerce.csv", "5", 120, d) : d \in Distances}] :
              n \in 0..MaxCandidates}

\* the values of min_score: 0.0 of ask_question, CREW_MIN_SCORE, the default 0.3
\* of search_similar_documents, and 1.0
Thresholds == {0, CREW_MIN_SCORE, 30, 100}

InitSearch ==
    /\ settings = [ENABLE_CREW_AGENTS |-> FALSE, crewai_installed |-> TRUE]
    /\ llm = [ollama |-> TRUE, gemini |-> FALSE]
    /\ is_initialized = TRUE
    /\ conversation_history = <<>>
    /\ history_file = HISTORY_FILE_ABSENT
    /\ collection = Partitions
    /\ mas = NoService
    /\ \E operation \in {"search_similar_documents", "search_documents_for_dataset"},
          results \in {QueryError} \cup {QueryOk(hits) : hits \in CandidateLists},
          n_results \in {1, 5}, min_score \in Thresholds :
          run = [pc |-> "search", operation |-> operation, results |-> results,
                 n_results |-> n_results, min_score |-> min_score]
    /\ response = NoAnswer
    /\ trace = NoTrace
    /\ next_uuid = 1

SearchSimilarDocuments ==
    /\ run.pc = "search"
    /\ run.operation = "search_similar_documents"
    /\ response' = [found |-> TRUE, raised |-> FALSE,
                    result |-> search_similar_documents(run.results, run.n_results,
                                                        run.min_score)]
    /\ run' = [run EXCEPT !.pc = "searched"]
    /\ UNCHANGED <<settings, is_initialized, conversation_history, history_file, llm,
                   collection, mas, trace, next_uuid>>

SearchDocumentsForDataset ==
    /\ run.pc = "search"
    /\ run.operation = "search_documents_for_dataset"
    /\ response' = [found |-> TRUE, raised |-> FALSE,
                    result |-> search_documents_for_dataset(run.results, run.n_results,
                                                            run.min_score)]
    /\ run' = [run EXCEPT !.pc = "searched"]
    /\ UNCHANGED <<settings, is_initialized, conversation_history, history_file, llm,
                   collection, mas, trace, next_uuid>>

NextSearch ==
    \/ SearchSimilarDocuments
    \/ SearchDocumentsForDataset

SpecSearch == InitSearch /\ [][NextSearch]_vars

----------------------------------------------------------------------------
(* Properties of the searches.                                              *)

\* the candidates the index returned for the query of the state: at most
\* n_results, none when the query failed
Candidates ==
    IF run.results.kind = "error" THEN <<>>
    ELSE Prefix(run.results.hits, run.n_results)

\* the result of the operation of the state at another threshold
SearchAt(min_score) ==
    IF run.operation = "search_similar_documents"
    THEN search_similar_documents(run.results, run.n_results, min_score)
    ELSE search_documents_for_dataset(run.results, run.n_results, min_score)

RECURSIVE IsSubSeq(_, _)
IsSubSeq(a, b) ==
    IF a = <<>> THEN TRUE
    ELSE IF b = <<>> THEN FALSE
    ELSE IF Head(a) = Head(b) THEN IsSubSeq(Tail(a), Tail(b))
    ELSE IsSubSeq(a, Tail(b))

(* C17: both searches return only sources whose relevance is at least the    *)
(* threshold, and every candidate scored under it is dropped; over the same  *)
(* candidates the result for a higher threshold is a sub-sequence of the     *)
(* result for a lower one, so raising the threshold never adds a result.     *)
C17_ThresholdFilter ==
    (run.pc = "searched") =>
        /\ \A i \in 1..Len(response.result) :
              response.result[i].relevance_score >= run.min_score
        /\ Len(response.result) =
              Cardinality({i \in 1..Len(Candidates) :
                              similarity_score(Candidates[i].distance) >= run.min_score})
        /\ \A t2 \in Thresholds :
              (run.min_score <= t2) =>
                  /\ IsSubSeq(SearchAt(t2), response.result)
                  /\ Len(SearchAt(t2)) <= Len(response.result)

\* a search per partition at threshold 0.3 kept one candidate and dropped
\* another
C17_Witness ==
    /\ run.pc = "searched"
    /\ run.operation = "search_documents_for_dataset"
    /\ run.min_score = 30
    /\ Len(Candidates) = 2
    /\ Len(response.result) = 1

(* C18: the relevance score of a candidate is 1 - d for a raw distance d in  *)
(* [0,1] and 1/(1+d) for d > 1, and for every distance the index can return, *)
(* negative, missing or non-numeric ones included, the score lies in [0,1].  *)
C18_RelevanceInUnitInterval ==
    (run.pc = "searched") =>
        /\ \A i \in 1..Len(Candidates) :
              LET distance == Candidates[i].distance
                  score    == similarity_score(distance)
              IN  /\ (distance.kind = "num" /\ 0 <= distance.d /\ distance.d <= 100) =>
                         score = 100 - distance.d
                  /\ (distance.kind = "num" /\ distance.d > 100) =>
                         score = 10000 \div (100 + distance.d)
                  /\ 0 <= score /\ score <= 100
        /\ \A i \in 1..Len(response.result) :
              /\ 0 <= response.result[i].relevance_score
              /\ response.result[i].relevance_score <= 100

\* candidates at distance 0 and 3 were returned with the scores 1 and 0.25
C18_Witness ==
    /\ run.pc = "searched"
    /\ Len(response.result) = 2
    /\ Candidates[1].distance = Dist(0)
    /\ Candidates[2].distance = Dist(300)
    /\ response.result[1].relevance_score = 100
    /\ response.result[2].relevance_score = 25

(* C19: when the index returns the candidates in ascending raw distance, the *)
(* search returns its sources best match first: their relevance scores never *)
(* increase along the result.                                                *)
C19_BestMatchFirst ==
    ( /\ run.pc = "searched"
      /\ \A i \in 1..Len(Candidates) : Candidates[i].distance.kind = "num"
      /\ \A i \in 1..(Len(Candidates) - 1) :
            Candidates[i].distance.d <= Candidates[i + 1].distance.d ) =>
        \A i \in 1..(Len(response.result) - 1) :
            response.result[i].relevance_score >= response.result[i + 1].relevance_score

\* candidates at distance 0 and 0.97 were returned in that order, scores 1 and
\* 0.03
C19_Witness ==
    /\ run.pc = "searched"
    /\ Len(response.result) = 2
    /\ Candidates[1].distance = Dist(0)
    /\ Candidates[2].distance = Dist(97)
    /\ response.result[1].relevance_score = 100
    /\ response.result[2].relevance_score = 3

----------------------------------------------------------------------------
(* Properties of the service life cycle.                                    *)

(* C20: ask_question on a service that is not initialized raises the         *)
(* not-initialized error, whatever the question, and does nothing else: no   *)
(* greeting reply, no cache lookup, no coordinator, retrieval or generation, *)
(* no change of the history or of its file; and ask_question raises no other *)
(* error: on an initialized service it always returns an Answer.             *)
C20_NotInitializedRaises ==
    [][ (trace' # NoTrace) =>
           IF ~is_initialized
           THEN /\ response'.raised
                /\ response'.message = <<"Service RAG non initialise">>
                /\ trace'.path = "not_initialized"
                /\ trace'.calls = {}
                /\ trace'.searches = {}
                /\ UNCHANGED <<conversation_history, history_file, next_uuid, mas,
                               is_initialized>>
           ELSE ~response'.raised
      ]_vars

\* a restarted service that loaded its history was asked a question before
\* initialize and raised
C20_Witness ==
    /\ ~is_initialized
    /\ trace.path = "not_initialized"
    /\ response.raised
    /\ conversation_history # <<>>

(* C21: a coordinator is available only when multi-agent mode is on, the     *)
(* agent library is installed and its agents could be built when it was      *)
(* created; a coordinator that is unavailable stays so through every later   *)
(* update_datasets and run, and its run returns no result without raising,   *)
(* searching or building a task; with multi-agent mode off or no known       *)
(* partition no coordinator is created.                                      *)
C21_UnavailableStaysUnavailable ==
    [][ /\ (mas.exists /\ ~mas.is_available /\ mas'.exists) => ~mas'.is_available
        /\ (mas'.exists /\ mas'.is_available) =>
              (settings.ENABLE_CREW_AGENTS /\ settings.crewai_installed)
        /\ mas'.exists => (settings.ENABLE_CREW_AGENTS /\ mas'.dataset_files # <<>>)
        /\ (mas'.exists /\ ~mas'.is_available) =>
              \A results \in PartitionAnswers(collection'), kickoff \in KickoffOutcomes,
                 request \in Requests :
                 run_crew(mas', results, request.context_limit, kickoff) =
                     [mar |-> RunNone, service |-> mas', stage |-> "unavailable",
                      calls |-> {"coordinator"}, tasks |-> <<>>]
        /\ (trace' # NoTrace /\ ~(mas.exists /\ mas.is_available)) =>
              /\ mas' = mas
              /\ trace'.calls \cap {"partition_search", "kickoff"} = {}
              /\ "coordinator" \notin trace'.exceptions
      ]_vars

\* the agents could not be built when the coordinator was created, and a
\* request was then answered without it
C21_Witness ==
    /\ settings.ENABLE_CREW_AGENTS /\ settings.crewai_installed
    /\ mas.exists /\ ~mas.is_available
    /\ trace.path = "classical"
    /\ trace.coordinator = "skipped"

----------------------------------------------------------------------------
(* Properties of concurrent requests.                                       *)

C23_OtherRequestsProgress ==
    (run.pc = "crew") =>
        \A request \in Requests :
            handle_greetings(request.question).found => ENABLED AnswerDirectly(request)

\* a greeting was answered once the request in the crew had returned
C23_Witness ==
    /\ run.pc = "idle"
    /\ next_uuid > 1
    /\ trace.path = "greeting"

----------------------------------------------------------------------------
(* The listing of the history, GET /history, on every history of up to       *)
(* MaxListed entries and every limit up to one more.                         *)

MaxListed == 7

\* self.conversation_history[-limit:]
get_conversation_history(history, limit) ==
    IF limit = 0 THEN history
    ELSE IF limit > 0 THEN SubSeq(history, Max(1, Len(history) - limit + 1), Len(history))
    ELSE SubSeq(history, Min(Len(history), 0 - limit) + 1, Len(history))

\* the history after n appends
Recorded(n) ==
    [i \in 1..n |-> HistoryEntry(i, Question(i), Answer(CitedText, <<>>, 100, "elapsed"))]

InitList ==
    /\ settings = [ENABLE_CREW_AGENTS |-> FALSE, crewai_installed |-> TRUE]
    /\ llm = [ollama |-> TRUE, gemini |-> FALSE]
    /\ is_initialized = TRUE
    /\ \E n \in 0..MaxListed :
          /\ conversation_history = Recorded(n)
          /\ history_file = persist_history_to_file(conversation_history,
                                                    HISTORY_FILE_ABSENT, n > 0)
          /\ next_uuid = n + 1
    /\ collection = Partitions
    /\ mas = NoService
    /\ \E limit \in (0 - 1)..(MaxListed + 1) : run = [pc |-> "list", limit |-> limit]
    /\ response = NoAnswer
    /\ trace = NoTrace

\* history = service.get_conversation_history(limit)
GetHistory ==
    /\ run.pc = "list"
    /\ response' = [found |-> TRUE, raised |-> FALSE,
                    history |-> get_conversation_history(conversation_history, run.limit),
                    count |-> Len(get_conversation_history(conversation_history,
                                                           run.limit))]
    /\ run' = [run EXCEPT !.pc = "listed"]
    /\ UNCHANGED <<settings, is_initialized, conversation_history, history_file, llm,
                   collection, mas, trace, next_uuid>>

NextList == GetHistory

SpecList == InitList /\ [][NextList]_vars

(* C24: for every limit that is not negative, the listing of the history     *)
(* returns the min(limit, length of the history) entries appended last, in   *)
(* the order of their append, the most recent last.                          *)
C24_ListingMostRecent ==
    (run.pc = "listed" /\ run.limit >= 0) =>
        LET n == Len(conversation_history)
            k == Min(run.limit, n)
        IN  /\ response.count = k
            /\ response.history = [i \in 1..k |-> conversation_history[n - k + i]]

\* a listing of the two most recent entries of a longer history
C24_Witness ==
    /\ run.pc = "listed"
    /\ run.limit = 2
    /\ Len(conversation_history) = 5
    /\ response.history = <<conversation_history[4], conversation_history[5]>>

----------------------------------------------------------------------------
(* The lookup in the history, on every history of up to MaxCached entries    *)
(* read from the file at start, whose questions may repeat.                  *)

MaxCached == 3

\* question texts: two that differ by case and outer blanks only, one longer,
\* one with a blank inside
QuestionTexts ==
    {<<"T", "V", "A">>, <<" ", "t", "v", "a">>, <<"t", "v", "a", "?">>,
     <<"t", "v", " ", "a">>}

\* the entry at position i of the file; its confidence tells its position
StoredEntry(i, question) ==
    HistoryEntry(i, question, Answer(CitedText, <<>>, 10 * i, "elapsed"))

StoredHistories ==
    UNION {{[i \in 1..n |-> StoredEntry(i, questions[i])] :
               questions \in [1..n -> QuestionTexts]} : n \in 0..MaxCached}

InitCache ==
    /\ settings = [ENABLE_CREW_AGENTS |-> FALSE, crewai_installed |-> TRUE]
    /\ llm = [ollama |-> TRUE, gemini |-> FALSE]
    /\ is_initialized = TRUE
    /\ \E history \in StoredHistories :
          /\ history_file = [exists |-> TRUE, content |-> JsonDump(history)]
          /\ conversation_history = load_history_from_file(history_file, TRUE)
          /\ next_uuid = Len(history) + 1
    /\ collection = Partitions
    /\ mas = NoService
    /\ \E question \in QuestionTexts : run = [pc |-> "lookup", question |-> question]
    /\ response = NoAnswer
    /\ trace = NoTrace

\* cached_response = self._check_history_cache(question)
CheckHistoryCache ==
    /\ run.pc = "lookup"
    /\ response' = check_history_cache(conversation_history, run.question)
    /\ run' = [run EXCEPT !.pc = "looked up"]
    /\ UNCHANGED <<settings, is_initialized, conversation_history, history_file, llm,
                   collection, mas, trace, next_uuid>>

NextCache == CheckHistoryCache

SpecCache == InitCache /\ [][NextCache]_vars

\* the positions of the entries whose normalized question is the incoming one
Matching(history, question) ==
    {i \in 1..Len(history) : Lower(Strip(history[i].question)) = Lower(Strip(question))}

(* C25: the lookup returns the answer of the most recently appended entry    *)
(* whose trimmed, lower-cased question equals the trimmed, lower-cased       *)
(* incoming question, and returns nothing when no entry has such a question. *)
C25_FreshestExactMatch ==
    (run.pc = "looked up") =>
        LET matching == Matching(conversation_history, run.question)
        IN  /\ response.found <=> matching # {}
            /\ response.found =>
                  \E i \in matching :
                      /\ \A j \in matching : j <= i
                      /\ response.answer = conversation_history[i].answer
                      /\ response.confidence_score = 10 * i
                      /\ response.sources = <<>>

\* two entries match (they differ by case and blanks), an entry appended after
\* them holds a longer question, and the second one is returned
C25_Witness ==
    /\ run.pc = "looked up"
    /\ run.question = <<"T", "V", "A">>
    /\ Len(conversation_history) = 3
    /\ conversation_history[1].question = <<"T", "V", "A">>
    /\ conversation_history[2].question = <<" ", "t", "v", "a">>
    /\ conversation_history[3].question = <<"t", "v", "a", "?">>
    /\ response.found
    /\ response.confidence_score = 20

----------------------------------------------------------------------------
(* The history under failures of its file: open() or json.dump raising in    *)
(* _persist_history_to_file, open() or json.load raising in                  *)
(* _load_history_from_file.                                                  *)

MaxFaults == 3

NextFault ==
    \/ \E question \in {Question(next_uuid), Question(1)}, write_ok \in BOOLEAN :
          Ask([question |-> question, context_limit |-> 5], write_ok, MaxFaults)
    \/ \E load_ok \in BOOLEAN : Restart(llm, load_ok)
    \/ Initialize(Partitions, Partitions, TRUE)

SpecFault == InitHist /\ [][NextFault]_vars

(* C26: a failure of the history file is never fatal. A construction whose   *)
(* read of the file fails returns, with an empty history; an ask_question    *)
(* whose write of the file fails still returns the generated Answer, the new *)
(* entry is in the history in memory; neither raises to the caller.          *)
C26_PersistenceFailureNotFatal ==
    [][/\ Restart(llm, FALSE) =>
            /\ conversation_history' = <<>>
            /\ response' = Done("construct", TRUE)
       /\ \A question \in {Question(next_uuid), Question(1)} :
             (/\ Ask([question |-> question, context_limit |-> 5], FALSE, MaxFaults)
              /\ next_uuid' # next_uuid) =>
                 /\ response'.found /\ ~response'.raised
                 /\ trace'.path \notin {"greeting", "cache", "not_initialized"}
                 /\ Len(conversation_history') = Len(conversation_history) + 1
                 /\ conversation_history'[Len(conversation_history')] =
                        HistoryEntry(next_uuid, question, response')
                 /\ history_file' = history_file]_vars

\* a construction that found a file with entries and starts with none, its
\* read having failed
C26_Witness ==
    /\ response = Done("construct", TRUE)
    /\ history_file.exists
    /\ JsonLoad(history_file.content) # <<>>
    /\ conversation_history = <<>>

\* an answer returned and kept in memory while the file still holds the
\* history before it
C26_WitnessWrite ==
    /\ trace # NoTrace
    /\ response.found /\ ~response.raised
    /\ Len(conversation_history) = 2
    /\ conversation_history[2].answer = response.answer
    /\ history_file.exists
    /\ Len(JsonLoad(history_file.content)) = 1

----------------------------------------------------------------------------
(* The confidence of a generated answer, on answer texts given character by  *)
(* character and on lists of sources of which only the document name         *)
(* matters.                                                                  *)

MaxAnswerLen == 2001

\* an answer of n characters that starts with "body" and goes on with periods
Padded(body, n) == body \o [i \in 1..(n - Len(body)) |-> "."]

AnswerBodies ==
    {<<>>, <<"o","u","i">>, <<"L","o","i"," ","5">>, <<"v","o","i","r"," ","c","g","i">>,
     <<"C","G","I",":"," ","l","o","i">>}

AnswerTexts ==
    {Padded(body, n) : body \in AnswerBodies, n \in {0, 49, 50, 2000, MaxAnswerLen}}

DocNames == {<<>>, <<"c","g","i">>, <<"C","G","I">>, <<"d","o","c">>}

\* a source retrieved from a document of that name
SourceOf(doc) ==
    Source([doc |-> doc, titre |-> "", chapitre |-> "", article |-> "5",
            contenu |-> Str("5", 120), pages |-> "", source_file |-> "code_commerce.csv"],
           90)

SourceLists ==
    {<<>>} \cup {<<SourceOf(d)>> : d \in DocNames}
           \cup {<<SourceOf(d), SourceOf(e)>> : d \in DocNames, e \in DocNames}

InitScore ==
    /\ settings = [ENABLE_CREW_AGENTS |-> FALSE, crewai_installed |-> TRUE]
    /\ llm = [ollama |-> TRUE, gemini |-> FALSE]
    /\ is_initialized = TRUE
    /\ conversation_history = <<>>
    /\ history_file = HISTORY_FILE_ABSENT
    /\ collection = Partitions
    /\ mas = NoService
    /\ \E answer \in AnswerTexts, sources \in SourceLists :
          run = [pc |-> "score", answer |-> answer, sources |-> sources]
    /\ response = NoAnswer
    /\ trace = NoTrace
    /\ next_uuid = 1

\* confidence_score = self._calculate_confidence_score(answer, sources)
CalculateConfidenceScore ==
    /\ run.pc = "score"
    /\ response' = [found |-> TRUE, raised |-> FALSE, answer |-> run.answer,
                    confidence_score |->
                        calculate_confidence_score(run.answer, run.sources)]
    /\ run' = [run EXCEPT !.pc = "scored"]
    /\ UNCHANGED <<settings, is_initialized, conversation_history, history_file, llm,
                   collection, mas, trace, next_uuid>>

NextScore == CalculateConfidenceScore

SpecScore == InitScore /\ [][NextScore]_vars

(* C27: for every answer text and every list of sources, those with an empty *)
(* document name included, the confidence of the local generation is         *)
(* min(1.0, 0.5 + 0.2 if a keyword of the legal register occurs in the       *)
(* answer + 0.2 if the document name of some source occurs literally in the  *)
(* answer + 0.1 if the length of the answer is within [50, 2000]). A keyword *)
(* occurs whatever its case, and an empty name occurs in every text.         *)
C27_ConfidenceHeuristic ==
    (run.pc = "scored") =>
        response.confidence_score =
            Min(100,
                50
                + (IF \E keyword \in Keywords : Contains(Lower(run.answer), keyword)
                   THEN 20 ELSE 0)
                + (IF \E i \in 1..Len(run.sources) :
                         Contains(run.answer, run.sources[i].doc)
                   THEN 20 ELSE 0)
                + (IF 50 <= Len(run.answer) /\ Len(run.answer) <= 2000 THEN 10 ELSE 0))

\* an answer of 50 characters with a keyword and the name of its document:
\* every term of the sum
C27_Witness ==
    /\ run.pc = "scored"
    /\ run.answer = Padded(<<"C","G","I",":"," ","l","o","i">>, 50)
    /\ run.sources = <<SourceOf(<<"C","G","I">>)>>
    /\ response.confidence_score = 100


\* the stage of the coordinator run in progress
CoordinatorStage ==
    IF run.pc # "crew" THEN "IDLE"
    ELSE IF run.tasks[Len(run.tasks)].status = "running" THEN "SUPERVISOR_RUNNING"
    ELSE IF \E i \in 1..Len(run.tasks) : run.tasks[i].status # "created"
    THEN "SPECIALISTS_RUNNING"
    ELSE "CONTEXT_GATHERED"

\* the stages of a step follow the order of the run: the tasks are created once
\* the contexts are gathered, the supervisor starts once the specialists have
\* ended, the output is parsed once the supervisor has run, and a run whose
\* stage failed or found nothing ends there
StagesInOrder ==
    /\ (run.pc = "idle" /\ run'.pc = "crew") =>
          /\ mas'.latest_sources # <<>>
          /\ \A i \in 1..Len(run'.tasks) : run'.tasks[i].status = "created"
    /\ (run.pc = "crew" /\ run'.pc = "crew") =>
          /\ CoordinatorStage = "SUPERVISOR_RUNNING" => CoordinatorStage' = "SUPERVISOR_RUNNING"
          /\ CoordinatorStage' = "CONTEXT_GATHERED" => CoordinatorStage = "CONTEXT_GATHERED"
          /\ (CoordinatorStage # "SUPERVISOR_RUNNING"
                /\ CoordinatorStage' = "SUPERVISOR_RUNNING") =>
                \A i \in 1..(Len(run.tasks) - 1) : run.tasks[i].status = "done"
          /\ mas' = mas
    /\ (run.pc = "crew" /\ run'.pc = "idle") =>
          /\ trace'.coordinator \in {"verdict", "no_answer", "no_result", "raised"} =>
                CoordinatorStage = "SUPERVISOR_RUNNING"
          /\ CoordinatorStage # "SUPERVISOR_RUNNING" => trace'.coordinator = "kickoff_raised"
          /\ mas' = mas
    /\ (run.pc = "idle" /\ run'.pc = "idle" /\ trace' # NoTrace
          /\ "partition_search" \in trace'.calls /\ mas'.latest_sources = <<>>) =>
          /\ trace'.coordinator = "no_context"
          /\ "kickoff" \notin trace'.calls

\* a run that got to crew.kickoff() ends by returning the parsed output with
\* its sources, or by returning None
EndsParsedOrFailed ==
    (run.pc = "crew" /\ run'.pc = "idle") =>
        trace'.coordinator \in {"verdict", "no_answer", "kickoff_raised", "no_result"}

(* C28: a coordinator run passes through its stages in the order context     *)
(* gathering, specialist tasks, supervisor, parsing of the output; it ends   *)
(* either parsed (a verdict with sources is returned) or failed (None is     *)
(* returned), and enters no stage after one that failed or found nothing.    *)
C28_StagesInOrder == [][StagesInOrder /\ EndsParsedOrFailed]_vars

\* a run that went through every stage and returned a verdict
C28_Witness ==
    /\ run.pc = "idle"
    /\ trace # NoTrace
    /\ trace.coordinator = "verdict"
    /\ "kickoff" \in trace.calls
    /\ mas.latest_sources # <<>>

----------------------------------------------------------------------------
(* The coordinator across reloads: a service initialized on one partition,   *)
(* whose data directory then gets the second one. The runs of the crew are   *)
(* followed task by task as above.                                           *)

InitReload ==
    /\ settings = [ENABLE_CREW_AGENTS |-> TRUE, crewai_installed |-> TRUE]
    /\ llm = [ollama |-> TRUE, gemini |-> TRUE]
    /\ is_initialized = TRUE
    /\ conversation_history = <<>>
    /\ history_file = HISTORY_FILE_ABSENT
    /\ collection = {"code_commerce.csv"}
    /\ mas = initialize_multi_agent(NoService, settings, {"code_commerce.csv"}, TRUE).service
    /\ run = Idle
    /\ response = Done("initialize", TRUE)
    /\ trace = NoTrace
    /\ next_uuid = 1

NextReload ==
    \/ NextCrew
    \/ \E files \in {{"code_commerce.csv"}, Partitions}, llm_ok \in BOOLEAN :
          ReloadData(files, files, llm_ok)

SpecReload == InitReload /\ [][NextReload]_vars

\* the partitions whose search returned a source in the last run
PartitionsWithSources ==
    {mas.latest_sources[k].source_file : k \in 1..Len(mas.latest_sources)}

(* C29: in every coordinator run a specialist task is created for a          *)
(* partition if and only if the search of that partition returned a source   *)
(* in that run: one task for each such partition, none for the others, and a *)
(* run that creates no task found no source in any partition.                *)
C29_TaskIffSources ==
    /\ (run.pc = "crew") =>
          \A f \in Partitions :
              Cardinality({i \in 1..(Len(run.tasks) - 1) : run.tasks[i].agent = f})
                  = IF f \in PartitionsWithSources THEN 1 ELSE 0
    /\ (run.pc = "idle" /\ trace # NoTrace /\ trace.coordinator = "no_context") =>
          PartitionsWithSources = {}

\* a run with a task for the first partition, whose search found sources, and
\* none for the second, whose search found nothing
C29_Witness ==
    /\ run.pc = "crew"
    /\ mas.dataset_files = SortedFiles(Partitions)
    /\ mas.dataset_agents = mas.dataset_files
    /\ PartitionsWithSources = {"code_commerce.csv"}
    /\ Len(run.tasks) = 2
    /\ run.tasks[1].agent = "code_commerce.csv"


\* the sources of the searches of one run, partition after partition in the
\* sorted order of the partitions
SearchedSources(results, context_limit) ==
    LET files == SortedFiles(Partitions)
        per_dataset == Max(context_limit, CREW_AGENT_TOP_K)
    IN  search_documents_for_dataset(results[files[1]], per_dataset, CREW_MIN_SCORE)
        \o search_documents_for_dataset(results[files[2]], per_dataset, CREW_MIN_SCORE)

(* C30: the sources attached to the verdict a coordinator run returns are    *)
(* the first max(context_limit, 3) of the sources gathered by the searches   *)
(* of that run, concatenated in the sorted order of the partitions: never    *)
(* more than max(context_limit, 3), each one retrieved during that run.      *)
C30_VerdictSources ==
    [][/\ (run.pc = "idle" /\ run'.pc = "crew") =>
             \E results \in CrewPartitionAnswers(collection) :
                 mas'.latest_sources = SearchedSources(results, run'.request.context_limit)
       /\ (run.pc = "crew" /\ run'.pc = "idle") =>
             LET limit  == Max(run.request.context_limit, 3)
                 capped == [i \in 1..Min(limit, Len(mas.latest_sources)) |->
                               mas.latest_sources[i]]
             IN  /\ \A output \in CrewOutputs :
                       LET mar == end_of_run(mas.latest_sources, run.request.context_limit,
                                             [raised |-> FALSE, output |-> output]).mar
                       IN  (~mar.raised /\ mar.result.type = "dict") =>
                               mar.result.sources = capped
                 /\ trace'.path = "crew" =>
                       /\ response'.sources = capped
                       /\ Len(response'.sources) <= limit]_vars

\* a verdict returned with three of the four sources the run gathered
C30_Witness ==
    /\ run.pc = "idle"
    /\ trace # NoTrace
    /\ trace.path = "crew"
    /\ trace.context_limit = 1
    /\ Len(mas.latest_sources) = 4
    /\ Len(response.sources) = 3
    /\ response.sources[3].source_file = "loi_societes.csv"

----------------------------------------------------------------------------
(* A full history: a service that has recorded MAX_HISTORY answers, then is  *)
(* asked new questions and questions it has answered, and has its history    *)
(* cleared.                                                                  *)

MaxEvictions == 4

\* a question typed again in lower case between blanks
Respelled(question) == <<" ">> \o Lower(question) \o <<" ">>

InitFull ==
    /\ settings = [ENABLE_CREW_AGENTS |-> TRUE, crewai_installed |-> FALSE]
    /\ llm = [ollama |-> TRUE, gemini |-> FALSE]
    /\ is_initialized = TRUE
    /\ conversation_history = Recorded(MAX_HISTORY)
    /\ history_file = persist_history_to_file(conversation_history, HISTORY_FILE_ABSENT, TRUE)
    /\ collection = Partitions
    /\ mas = initialize_multi_agent(NoService, settings, Partitions, TRUE).service
    /\ run = Idle
    /\ response = Done("initialize", TRUE)
    /\ trace = NoTrace
    /\ next_uuid = MAX_HISTORY + 1

NextFull ==
    \/ \E question \in {Question(next_uuid), Question(MAX_HISTORY),
                         Respelled(Question(MAX_HISTORY))} :
          Ask([question |-> question, context_limit |-> 5], TRUE, MAX_HISTORY + MaxEvictions)
    \/ ClearHistory

SpecFull == InitFull /\ [][NextFull]_vars

(* C31: an entry of the history is never modified. Every operation leaves    *)
(* the history as it was, or with one entry more at its end and possibly     *)
(* without its oldest entries, or empty after clear_history; the entries     *)
(* that stay keep their order.                                               *)
C31_EntriesNeverModified ==
    [][\/ conversation_history' = conversation_history
       \/ /\ conversation_history' = <<>>
          /\ response' = Done("clear_history", TRUE)
       \/ LET kept    == Len(conversation_history') - 1
              dropped == Len(conversation_history) - kept
          IN  /\ kept >= 0
              /\ dropped >= 0
              /\ \A i \in 1..kept :
                    conversation_history'[i] = conversation_history[i + dropped]
              /\ \A i \in 1..Len(conversation_history) :
                    conversation_history'[kept + 1] # conversation_history[i]]_vars

\* a full history that lost its oldest entry to a new one
C31_Witness ==
    /\ Len(conversation_history) = MAX_HISTORY
    /\ conversation_history[1].id = 2
    /\ conversation_history[MAX_HISTORY].id = MAX_HISTORY + 1


(* C32: every source stored in an entry of the history has a content of at   *)
(* most 200 characters, whatever the length of the content of the source in  *)
(* the Answer that was recorded.                                             *)
C32_StoredContentCapped ==
    \A i \in 1..Len(conversation_history) :
        \A k \in 1..Len(conversation_history[i].sources) :
            StrLen(conversation_history[i].sources[k].contenu) <= 200

\* an entry recorded for an Answer with a source of 250 characters and one of
\* 120, stored as it is
C32_Witness ==
    /\ Answered
    /\ Len(conversation_history) = 1
    /\ \E k \in 1..Len(response.sources) : StrLen(response.sources[k].contenu) = 250
    /\ \E k \in 1..Len(conversation_history[1].sources) :
          /\ StrLen(response.sources[k].contenu) = 120
          /\ conversation_history[1].sources[k].contenu = response.sources[k].contenu


(* C33: when the agents cannot be rebuilt as a reload updates the list of    *)
(* partitions (the model handles cannot be created in update_datasets), the  *)
(* coordinator becomes unavailable and nothing is raised: the reload reports *)
(* the documents it indexed, and the requests that follow are answered       *)
(* through the classical path.                                               *)
C33_RebuildFailureDisables ==
    [][\A files \in Corpora :
          (/\ files # {}
           /\ mas.exists /\ mas.is_available
           /\ ReloadData(files, files, FALSE)) =>
              /\ response'.ok
              /\ response'.documents_processed = Cardinality(files)
              /\ ~mas'.is_available
              /\ is_initialized']_vars

\* a reload that rebuilt the agents of an available coordinator
C33_Witness ==
    /\ response = [found |-> TRUE, raised |-> FALSE, operation |-> "reload_data",
                   ok |-> TRUE, documents_processed |-> Cardinality(Partitions)]
    /\ mas.exists /\ mas.is_available
    /\ mas.dataset_agents = SortedFiles(Partitions)
    /\ conversation_history # <<>>


(* C34: once clear_history has returned success the history is empty in      *)
(* memory and on durable storage: every lookup in the cache misses, and a    *)
(* service constructed afterwards starts with an empty history.              *)
C34_ClearReachesStorage ==
    (response = Done("clear_history", TRUE)) =>
        /\ conversation_history = <<>>
        /\ \A request \in Requests :
              ~check_history_cache(conversation_history, request.question).found
        /\ load_history_from_file(history_file, TRUE) = <<>>

\* a history with an entry was cleared: it is empty in memory and the question
\* of the entry misses the cache
C34_Witness ==
    /\ response = Done("clear_history", TRUE)
    /\ history_file.exists
    /\ conversation_history = <<>>
    /\ ~check_history_cache(conversation_history,
                            JsonLoad(history_file.content)[1].question).found


(* C35: from a history whose trimmed, lower-cased questions are pairwise     *)
(* distinct, every sequence of ask_question and clear_history calls, run one *)
(* after another, keeps them pairwise distinct: a question the history holds *)
(* is served from the cache and is never appended a second time.             *)
C35_QuestionsStayDistinct ==
    LET normalized == [i \in 1..Len(conversation_history) |->
                          Normalize(conversation_history[i].question)]
    IN  \A i \in 1..Len(normalized) :
            \A j \in (i + 1)..Len(normalized) : normalized[i] # normalized[j]

\* the last question of the history, typed again in another spelling, was
\* served from the cache
C35_Witness ==
    /\ trace # NoTrace
    /\ trace.path = "cache"
    /\ trace.question = Respelled(Question(MAX_HISTORY))
    /\ Len(conversation_history) = MAX_HISTORY
    /\ \E i \in 1..Len(conversation_history) :
          conversation_history[i].question = Question(MAX_HISTORY)

----------------------------------------------------------------------------
(* A service constructed over a history file left by an earlier process or   *)
(* written by another tool: the file holds MAX_HISTORY records, one less, or *)
(* MaxRecords.                                                               *)

MaxRecords == 101

LogSizes == {MAX_HISTORY - 1, MAX_HISTORY, MaxRecords}

InitLoad ==
    /\ settings = [ENABLE_CREW_AGENTS |-> TRUE, crewai_installed |-> FALSE]
    /\ llm = [ollama |-> TRUE, gemini |-> FALSE]
    /\ is_initialized = FALSE
    /\ \E n \in LogSizes :
          /\ history_file = [exists |-> TRUE, content |-> JsonDump(Recorded(n))]
          /\ next_uuid = n + 1
    /\ conversation_history = load_history_from_file(history_file, TRUE)
    /\ collection = {}
    /\ mas = NoService
    /\ run = Idle
    /\ response = Done("construct", TRUE)
    /\ trace = NoTrace

NextLoad ==
    \/ Initialize(Partitions, Partitions, TRUE)
    \/ \E question \in {Question(next_uuid), Question(1)} :
          Ask([question |-> question, context_limit |-> 5], TRUE, MaxRecords + 2)
    \/ Restart(llm, TRUE)

SpecLoad == InitLoad /\ [][NextLoad]_vars

(* C36: in every reachable state the history in memory holds at most 100     *)
(* entries, right after the history file was loaded at construction too,     *)
(* whatever the number of records of that file.                              *)
C36_LoadedHistoryBounded ==
    /\ Len(conversation_history) <= MAX_HISTORY
    /\ (response = Done("construct", TRUE)) =>
          Len(conversation_history) = Min(MAX_HISTORY, Len(JsonLoad(history_file.content)))

\* a service constructed over a file of 100 records, then asked a new
\* question: 100 entries at construction, 100 after the append
C36_Witness ==
    /\ trace # NoTrace
    /\ trace.path = "classical"
    /\ Len(conversation_history) = MAX_HISTORY
    /\ conversation_history[1].id = 2
    /\ conversation_history[MAX_HISTORY].id = MAX_HISTORY + 1
    /\ Len(JsonLoad(history_file.content)) = MAX_HISTORY


(* C37: a reload_data that fails, because no document was loaded or because  *)
(* the documents could not be added to the index, raises nothing, returns    *)
(* documents_processed = 0 and leaves the service as it was: the documents   *)
(* indexed before stay searchable and the coordinator keeps its partitions.  *)
C37_FailedReloadChangesNothing ==
    [][\A files \in Corpora, added \in Corpora, llm_ok \in BOOLEAN :
          (/\ files = {} \/ added # files
           /\ ReloadData(files, added, llm_ok)) =>
              /\ ~response'.raised
              /\ ~response'.ok
              /\ response'.documents_processed = 0
              /\ collection' = collection
              /\ mas' = mas
              /\ is_initialized' = is_initialized]_vars

\* a reload that loaded no document, on an initialized service whose index and
\* coordinator are as they were
C37_Witness ==
    /\ response = [found |-> TRUE, raised |-> FALSE, operation |-> "reload_data",
                   ok |-> FALSE, documents_processed |-> 0]
    /\ is_initialized
    /\ collection = Partitions
    /\ mas.exists /\ mas.dataset_files = SortedFiles(Partitions)

----------------------------------------------------------------------------
(* Requests that reach the coordinator one behind the other: the service has *)
(* run it for an earlier question, whose sources are in its _latest_sources, *)
(* and requests come in at any time, during a run of the crew too.           *)

\* the sources gathered for the earlier question
EarlierSources ==
    search_documents_for_dataset(QueryOk(<<Hit("loi_societes.csv", "9", 40, Dist(10))>>),
                                 CREW_AGENT_TOP_K, CREW_MIN_SCORE)

InitRuns ==
    /\ settings = [ENABLE_CREW_AGENTS |-> TRUE, crewai_installed |-> TRUE]
    /\ llm = [ollama |-> TRUE, gemini |-> TRUE]
    /\ is_initialized = TRUE
    /\ conversation_history = <<>>
    /\ history_file = HISTORY_FILE_ABSENT
    /\ collection = Partitions
    /\ mas = [initialize_multi_agent(NoService, settings, Partitions, TRUE).service
                 EXCEPT !.latest_sources = EarlierSources]
    /\ run = Idle
    /\ response = Done("clear_history", TRUE)
    /\ trace = NoTrace
    /\ next_uuid = 1

SpecRuns == InitRuns /\ [][NextCrew]_vars

SameSourceList(original, returned) ==
    /\ Len(returned) = Len(original)
    /\ \A k \in 1..Len(original) :
          /\ returned[k].doc = original[k].doc
          /\ returned[k].titre = original[k].titre
          /\ returned[k].chapitre = original[k].chapitre
          /\ returned[k].article = original[k].article
          /\ returned[k].source_file = original[k].source_file
          /\ returned[k].relevance_score = original[k].relevance_score
          /\ returned[k].contenu = TruncateContenu(original[k].contenu)

(* C39: a cache hit returns the source list of the Answer that created the   *)
(* history entry: as many sources in the same order, each with the doc,      *)
(* titre, chapitre, article, source_file and relevance_score of the          *)
(* original; only the content of a source may be shortened. The entry        *)
(* appended for an Answer holds its sources in this way, and a cache hit     *)
(* returns the sources of the entry as they are stored.                      *)
C39_CacheHitSameSources ==
    [][ /\ (next_uuid' # next_uuid) =>
              SameSourceList(response'.sources,
                             conversation_history'[Len(conversation_history')].sources)
        /\ (is_initialized /\ trace' # NoTrace /\ trace'.path = "cache") =>
              \E i \in RecordedFor(conversation_history, trace'.question) :
                  /\ SameSourceList(conversation_history[i].sources, response'.sources)
                  /\ \A k \in 1..Len(response'.sources) :
                        response'.sources[k].contenu = conversation_history[i].sources[k].contenu
      ]_vars

\* a cache hit returned several sources, one of them with a shortened content
C39_Witness ==
    /\ Answered
    /\ trace.path = "cache"
    /\ Len(response.sources) >= 2
    /\ \E k \in 1..Len(response.sources) : StrLen(response.sources[k].contenu) = 203
    /\ \E k \in 1..Len(response.sources) : StrLen(response.sources[k].contenu) <= 200
    /\ \E k \in 1..Len(response.sources) : response.sources[k].relevance_score > 0
    /\ \E i \in RecordedFor(conversation_history, trace.question) :
          SameSourceList(conversation_history[i].sources, response.sources)

============================================================================
